---- MODULE Spec2Model ----
(***************************************************************************)
(* Model of the S-curve motion profile solver (SCurveFull / Curve /        *)
(* MotionConstraint / Motion).                                             *)
(*                                                                         *)
(* Numbers.  The program computes with Python floats.  The model computes  *)
(* with exact numbers of the form (p + q*sqrt(n)) / d (integers p, q, n,   *)
(* d, d > 0), which is closed under everything the solver and the segment  *)
(* characterizer do after a single square root has been taken.  Requests   *)
(* are drawn from dyadic values, for which the float computation and the   *)
(* exact one take the same branches.                                       *)
(*                                                                         *)
(* Times.  A point in time inside a segment is the root of the segment's   *)
(* displacement law (a cubic or a quadratic); the root finders are         *)
(* modelled by what they return when they converge, the time at which the  *)
(* segment has covered a given displacement, kept in symbolic form (see    *)
(* TimeAt).                                                                *)
(***************************************************************************)
EXTENDS Integers, Sequences, FiniteSets, TLC

(***************************************************************************)
(* Exact arithmetic on (p + q*sqrt(n)) / d                                 *)
(***************************************************************************)
Abs(i) == IF i < 0 THEN -i ELSE i

Sgn(i) == IF i > 0 THEN 1 ELSE IF i < 0 THEN -1 ELSE 0

RECURSIVE GCD(_, _)
GCDStep(x, y) == IF y = 0 THEN Abs(x) ELSE GCD(y, Abs(x) % Abs(y))

\* the operands are evaluated once, here and in Norm, Add and Mul
GCD(x, y) == CHOOSE g \in { GCDStep(u, v) : u \in {x}, v \in {y} } : TRUE

\* (p + q*sqrt(n)) / d divided through by g > 0, with the sign moved to the
\* numerator
Reduce(p, q, n, d, g) ==
    IF d < 0 THEN [p |-> (-p) \div g, q |-> (-q) \div g, n |-> n, d |-> (-d) \div g]
    ELSE [p |-> p \div g, q |-> q \div g, n |-> n, d |-> d \div g]

\* canonical form: d > 0, gcd(p, q, d) = 1, n = 0 iff q = 0
NormValues(p, q, n, d) ==
    IF q = 0 \/ n = 0 THEN Reduce(p, 0, 0, d, GCD(p, d))
    ELSE Reduce(p, q, n, d, GCD(GCD(p, q), d))

Norm(p, q, n, d) ==
    CHOOSE r \in { NormValues(pv, qv, nv, dv) :
                       pv \in {p}, qv \in {q}, nv \in {n}, dv \in {d} } : TRUE

Rat(num, den) == Norm(num, 0, 0, den)

Num(i) == [p |-> i, q |-> 0, n |-> 0, d |-> 1]

Zero == Num(0)

IsRational(x) == x.q = 0

\* the radicand two operands have in common (operands of one computation
\* stem from the same square root)
Radicand(x, y) == IF x.q # 0 THEN x.n ELSE y.n

Compatible(x, y) == x.q = 0 \/ y.q = 0 \/ x.n = y.n

Neg(x) == [p |-> -x.p, q |-> -x.q, n |-> x.n, d |-> x.d]

\* x + y over the common denominator l = fx * x.d = fy * y.d
AddOver(x, y, fx, fy) ==
    Norm(x.p * fx + y.p * fy, x.q * fx + y.q * fy, Radicand(x, y), fx * x.d)

AddWithGcd(x, y, g) == AddOver(x, y, y.d \div g, x.d \div g)

AddValues(x, y) ==
    IF Compatible(x, y) THEN AddWithGcd(x, y, GCD(x.d, y.d))
    ELSE [error |-> "nested radicals"]

Add(x, y) == CHOOSE r \in { AddValues(u, v) : u \in {x}, v \in {y} } : TRUE

Sub(x, y) == Add(x, Neg(y))

\* (xp + xq*sqrt(n)) / xd times (yp + yq*sqrt(n)) / yd
MulParts(xp, xq, xd, yp, yq, yd, n) ==
    Norm(xp * yp + xq * yq * n, xp * yq + xq * yp, n, xd * yd)

\* x * y after cancelling g1 between x's numerator and y's denominator and
\* g2 between y's numerator and x's denominator
MulCancelled(x, y, g1, g2) ==
    MulParts(x.p \div g1, x.q \div g1, x.d \div g2,
             y.p \div g2, y.q \div g2, y.d \div g1, Radicand(x, y))

MulValues(x, y) ==
    IF Compatible(x, y)
    THEN MulCancelled(x, y, GCD(GCD(x.p, x.q), y.d), GCD(GCD(y.p, y.q), x.d))
    ELSE [error |-> "nested radicals"]

Mul(x, y) == CHOOSE r \in { MulValues(u, v) : u \in {x}, v \in {y} } : TRUE

\* 1 / x = d * (p - q*sqrt(n)) / (p^2 - q^2 * n), with g = gcd(p, q, d)
InvWithGcd(x, g) ==
    Norm(x.d * (x.p \div g), -(x.d * (x.q \div g)), x.n,
         (x.p * x.p - x.q * x.q * x.n) \div g)

Inv(x) ==
    IF x.q = 0 THEN Norm(x.d, 0, 0, x.p)
    ELSE InvWithGcd(x, GCD(GCD(x.p, x.q), x.d))

Div(x, y) == Mul(x, Inv(y))

Sq(x) == Mul(x, x)

Cube(x) == Mul(x, Mul(x, x))

\* sign of p + q*sqrt(n)
Sign(x) ==
    IF x.q = 0 THEN Sgn(x.p)
    ELSE IF x.p = 0 THEN Sgn(x.q)
    ELSE IF Sgn(x.p) = Sgn(x.q) THEN Sgn(x.p)
    ELSE IF x.p * x.p = x.q * x.q * x.n THEN 0
    ELSE IF x.p * x.p > x.q * x.q * x.n THEN Sgn(x.p)
    ELSE Sgn(x.q)

\* sign of u + w where the signs su of u and sw of w differ and are not 0,
\* and sd is the sign of u^2 - w^2
SignOfOpposed(su, sw, sd) == IF sd > 0 THEN su ELSE IF sd < 0 THEN sw ELSE 0

\* sign of u + w*sqrt(m) for u with another radicand than m
SignOfSum(u, w, m) ==
    IF Sign(u) = 0 \/ Sign(u) = Sign(w) THEN Sign(w)
    ELSE SignOfOpposed(Sign(u), Sign(w), Sign(Sub(Sq(u), Mul(Sq(w), Num(m)))))

\* sign of x - y
SignOfDifference(x, y) ==
    IF Compatible(x, y) THEN Sign(Sub(x, y))
    ELSE SignOfSum(Sub(x, Rat(y.p, y.d)), Rat(-y.q, y.d), y.n)

Lt(x, y) == SignOfDifference(x, y) < 0

Le(x, y) == SignOfDifference(x, y) <= 0

Eq(x, y) == SignOfDifference(x, y) = 0

RECURSIVE ISqrtBin(_, _, _)
\* largest r in lo..hi with r*r <= m (lo*lo <= m < (hi+1)^2)
ISqrtBin(m, lo, hi) ==
    IF lo >= hi THEN lo
    ELSE IF ((lo + hi + 1) \div 2) * ((lo + hi + 1) \div 2) <= m
         THEN ISqrtBin(m, (lo + hi + 1) \div 2, hi)
         ELSE ISqrtBin(m, lo, ((lo + hi + 1) \div 2) - 1)

ISqrt(m) == ISqrtBin(m, 0, IF m < 46340 THEN m ELSE 46340)

FloorFrom(x, est) ==
    CHOOSE k \in (est - 2)..(est + 2) : Le(Num(k), x) /\ Lt(x, Num(k + 1))

\* math.floor
Floor(x) ==
    IF x.q = 0 THEN x.p \div x.d
    ELSE FloorFrom(x, (x.p + Sgn(x.q) * ISqrt(x.q * x.q * x.n)) \div x.d)

\* math.ceil
Ceil(x) == -Floor(Neg(x))

IsSquare(m) == ISqrt(m) * ISqrt(m) = m

RECURSIVE SquarePart(_, _)
\* largest k with k*k dividing m, given that no prime below f divides m
\* twice: once f^3 > m, what is left is a square or square-free
SquarePart(m, f) ==
    IF f * f > m \div f THEN (IF IsSquare(m) THEN ISqrt(m) ELSE 1)
    ELSE IF m % (f * f) = 0 THEN f * SquarePart(m \div (f * f), f)
    ELSE IF m % f = 0 THEN SquarePart(m \div f, f + 1)
    ELSE SquarePart(m, f + 1)

\* sqrt(m) / d with k the square part of m
SqrtParts(m, d, k) == Norm(0, k, m \div (k * k), d)

\* sqrt(m) / d
SqrtOver(m, d) ==
    IF IsSquare(m) THEN Rat(ISqrt(m), d) ELSE SqrtParts(m, d, SquarePart(m, 2))

\* sqrt(p / d) with k the square part of d, d = k*k*r: sqrt(p*r) / (k*r)
SqrtOfRatio(p, d, k) == SqrtOver(p * (d \div (k * k)), d \div k)

\* math.sqrt of a non-negative rational
Sqrt(x) ==
    IF x.q # 0 THEN [error |-> "nested radicals"]
    ELSE SqrtOfRatio(x.p, x.d, SquarePart(x.d, 2))

\* np.nan, and the test np.isnan
NaN == [p |-> 0, q |-> 0, n |-> 0, d |-> 0]

IsNaN(x) == x.d = 0

(***************************************************************************)
(* The numbers above are exact; the program computes with floats.  A float *)
(* is a ratio with a power of two for denominator, so a computation whose  *)
(* operands and results are all such ratios is carried out without         *)
(* rounding.  Any other is rounded, by a relative 2^-53 per operation: the *)
(* float of a number then lies beside it, and a comparison of the floats   *)
(* of two equal numbers, or the floor or the ceiling of the float of an    *)
(* integer, comes out as rounding has it.  Rounding is not computed here:  *)
(* such a test has both results.                                           *)
(***************************************************************************)
RECURSIVE PowerOfTwo(_)
PowerOfTwo(n) == n = 1 \/ (n > 1 /\ n % 2 = 0 /\ PowerOfTwo(n \div 2))

\* a float holds x: x is a rational with a power of two for denominator
HeldByFloat(x) == x.q = 0 /\ PowerOfTwo(x.d)

\* floats hold every number of xs
AllHeld(xs) == \A x \in xs : HeldByFloat(x)

\* the results "x < y" can give on the floats of x and y, which were
\* computed without rounding when held is true
LtResults(x, y, held) ==
    IF ~held /\ Eq(x, y) THEN {TRUE, FALSE} ELSE {Lt(x, y)}

\* the results "x <= y" can give
LeResults(x, y, held) ==
    IF ~held /\ Eq(x, y) THEN {TRUE, FALSE} ELSE {Le(x, y)}

\* the results math.floor can give on the float of x
FloorResults(x, held) ==
    IF ~held /\ Eq(x, Num(Floor(x))) THEN {Floor(x) - 1, Floor(x)} ELSE {Floor(x)}

\* the results math.ceil can give on the float of x; a zero is the literal
\* 0 a name was initialised with
CeilResults(x, held) ==
    IF ~held /\ Sign(x) # 0 /\ Eq(x, Num(Ceil(x))) THEN {Ceil(x), Ceil(x) + 1}
    ELSE {Ceil(x)}

(***************************************************************************)
(* curve_math.py                                                           *)
(***************************************************************************)
\* Curve.epsilon = 1E-9, as 1 / EpsilonDen
EpsilonDen == 1000000000

\* x > epsilon.  An irrational difference of the magnitudes the requests
\* below produce is never within 1e-9 of zero, so its sign decides.
GtEpsilon(x) == IF x.q = 0 THEN x.p > x.d \div EpsilonDen ELSE Sign(x) > 0

\* x <= epsilon
LeEpsilon(x) == IF x.q = 0 THEN x.p <= x.d \div EpsilonDen ELSE Sign(x) <= 0

\* x < epsilon
LtEpsilon(x) == IF x.q = 0 THEN x.p <= (x.d - 1) \div EpsilonDen ELSE Sign(x) <= 0

\* lines 12-15, with r_stp = s * alpha and stp = ceil(r_stp)
StepsOf(r_stp, stp) == IF LtEpsilon(Sub(Num(stp), r_stp)) THEN stp ELSE stp - 1

StepsOfReal(r_stp) == StepsOf(r_stp, Ceil(r_stp))

s_to_steps(s, alpha) == StepsOfReal(Mul(s, alpha))

NonNegativeOrNaN(unknown) == IF Sign(unknown) < 0 THEN NaN ELSE unknown

\* lines 71-82, with the discriminant computed
SecondOrderPos(a, b, discriminant) ==
    IF Sign(discriminant) > 0
    THEN NonNegativeOrNaN(Div(Add(Neg(b), Sqrt(discriminant)), Mul(Num(2), a)))
    ELSE IF Sign(discriminant) = 0
    THEN NonNegativeOrNaN(Neg(Div(b, Mul(Num(2), a))))
    ELSE NaN

solve_second_order_pos(a, b, c) ==
    SecondOrderPos(a, b, Sub(Sq(b), Mul(Num(4), Mul(a, c))))

\* lines 90-101, with the discriminant computed
SecondOrderNeg(a, b, discriminant) ==
    IF Sign(discriminant) > 0
    THEN NonNegativeOrNaN(Div(Sub(Neg(b), Sqrt(discriminant)), Mul(Num(2), a)))
    ELSE IF Sign(discriminant) = 0
    THEN NonNegativeOrNaN(Neg(Div(b, Mul(Num(2), a))))
    ELSE NaN

solve_second_order_neg(a, b, c) ==
    SecondOrderNeg(a, b, Sub(Sq(b), Mul(Num(4), Mul(a, c))))

(***************************************************************************)
(* curve.py: CurveSegment                                                  *)
(***************************************************************************)
CurveSegment(id, t, vi, ve, ai, ae, j, si, se) ==
    [id |-> id, t |-> t, vi |-> vi, ve |-> ve, ai |-> ai, ae |-> ae, j |-> j,
     si |-> si, se |-> se, s |-> Sub(se, si)]

ContinuousCurveSegment(id, t, vi, ve, ai, ae, j, si, se) ==
    CurveSegment(id, t, vi, ve, ai, ae, j, si, se)

DiscreteCurveSegment(id, t, vi, ve, ai, ae, j, si, se, stpi, stpe, td, t0, s0) ==
    [id |-> id, t |-> t, vi |-> vi, ve |-> ve, ai |-> ai, ae |-> ae, j |-> j,
     si |-> si, se |-> se, s |-> Sub(se, si),
     stpi |-> stpi, stpe |-> stpe, td |-> td, t0 |-> t0, s0 |-> s0]

fa(seg, t) == Add(seg.ai, Mul(seg.j, t))

fv(seg, t) ==
    Add(Add(seg.vi, Mul(seg.ai, t)), Mul(Rat(1, 2), Mul(seg.j, Sq(t))))

fs(seg, t) ==
    Add(Add(Add(seg.si, Mul(seg.vi, t)), Mul(Rat(1, 2), Mul(seg.ai, Sq(t)))),
        Mul(Rat(1, 6), Mul(seg.j, Cube(t))))

(***************************************************************************)
(* Times.  The root finders (solve_third_order_newton for the cubic        *)
(* segments, solve_second_order_pos for the quadratic ones) are called     *)
(* with the coefficients of a segment's displacement law                   *)
(*     vi * t + ai * t^2 / 2 + j * t^3 / 6  =  x                           *)
(* and return the time t at which the segment has covered x.  That time    *)
(* is in general not a number of the form above, so it is kept as an      *)
(* atom <<j, ai, vi, x>>.  A time is [atoms, lin]: atoms maps atoms to    *)
(* integer coefficients and lin is a number of seconds.                    *)
(*                                                                         *)
(* Some roots are known exactly.  With ai = j = 0 the root is x / vi       *)
(* (curve.py line 192).  When seg.t is the time at which the law           *)
(* reaches seg.s (which is computed, not assumed), the root for x = seg.s  *)
(* is seg.t, and the law run backwards from the exit state                 *)
(* (ae, ve) = (fa(t), fv(t)) is -ae, ve, j: covering x forwards takes      *)
(* seg.t minus the time the reversed law needs for seg.s - x.  A segment   *)
(* that decelerates is written in that reversed form, so that equal times  *)
(* have equal representations.                                             *)
(*                                                                         *)
(* A time here is the root itself.  The program's is a float the finder    *)
(* stops at within its tolerance of the root (1e-9 in __discretize__), or  *)
(* NaN: what holds of these times holds of the program's up to that        *)
(* tolerance, and two of them that are equal here are computed by the      *)
(* program in separate runs of the finder.  The finder's NaN is an outcome *)
(* under SpecNaN.                                                          *)
(***************************************************************************)
NoAtoms == [x \in {} |-> 0]

TZero == [atoms |-> NoAtoms, lin |-> Zero]

TNum(x) == [atoms |-> NoAtoms, lin |-> x]

Coef(f, x) == IF x \in DOMAIN f THEN f[x] ELSE 0

TAdd(t1, t2) ==
    LET D == DOMAIN t1.atoms \cup DOMAIN t2.atoms
        k(x) == Coef(t1.atoms, x) + Coef(t2.atoms, x)
    IN  [atoms |-> [x \in {y \in D : k(y) # 0} |-> k(x)],
         lin   |-> Add(t1.lin, t2.lin)]

TNeg(t1) == [atoms |-> [x \in DOMAIN t1.atoms |-> -t1.atoms[x]], lin |-> Neg(t1.lin)]

TSub(t1, t2) == TAdd(t1, TNeg(t2))

\* the times the program tests are sums of non-negative stretches, so such
\* a time is positive iff it is not the zero time
TPositive(t1) == t1 # TZero

TAtom(j, ai, vi, x) == [atoms |-> (<<j, ai, vi, x>> :> 1), lin |-> Zero]

\* TimeAt, with whole = "seg.t is the time at which seg's law reaches seg.s"
TimeAtLaw(seg, x, whole) ==
    IF Sign(x) = 0 THEN TZero
    ELSE IF whole /\ Eq(x, seg.s) THEN TNum(seg.t)
    ELSE IF Sign(seg.ai) = 0 /\ Sign(seg.j) = 0 THEN TNum(Div(x, seg.vi))
    ELSE IF ~whole \/ Sign(seg.ai) > 0 \/ (Sign(seg.ai) = 0 /\ Sign(seg.j) > 0)
    THEN TAtom(seg.j, seg.ai, seg.vi, x)
    ELSE TSub(TNum(seg.t),
              TAtom(seg.j, Neg(fa(seg, seg.t)), fv(seg, seg.t), Sub(seg.s, x)))

\* the time at which segment seg has covered displacement x from its entry
TimeAt(seg, x) == TimeAtLaw(seg, x, Eq(Sub(fs(seg, seg.t), seg.si), seg.s))

(***************************************************************************)
(* Program constants (Curve.__init__)                                      *)
(***************************************************************************)
min_segment_steps == 2

\* Curve.solve_error = 0.01
solve_error == Rat(1, 100)

(***************************************************************************)
(* Requests.  A request is what the caller passes to MotionConstraint(v0,  *)
(* v, a, j, s, t) together with alpha.  The displacement runs over         *)
(* quarters of a unit above a base, so that S * alpha takes integer and    *)
(* non-integer values; the ceilings are dyadic fractions chosen so that    *)
(* the bisection takes 1 or 2 trials.  Three profiles are requested with   *)
(* a time target T > 0 as well.                                            *)
(***************************************************************************)
MaxS4 == 24

Profile(v0, v, a, j, alpha, base) ==
    [v0 |-> v0, v |-> v, a |-> a, j |-> j, alpha |-> alpha, base |-> base]

Profiles ==
    { Profile(Rat(1, 8), Rat(1, 4), Rat(1, 64), Rat(1, 256), Num(2), Zero),
      Profile(Rat(1, 8), Rat(1, 4), Rat(1, 64), Rat(1, 512), Num(2), Zero),
      Profile(Rat(1, 8), Rat(1, 2), Rat(1, 32), Rat(1, 256), Num(1), Num(7)),
      Profile(Rat(1, 4), Rat(21, 64), Rat(1, 64), Rat(1, 256), Num(2), Num(4)),
      Profile(Zero, Rat(1, 4), Rat(1, 32), Rat(1, 512), Num(2), Zero),
      Profile(Zero, Rat(3, 8), Rat(1, 32), Rat(1, 256), Num(4), Num(5)),
      Profile(Num(1), Num(9), Num(6), Num(6), Num(1), Rat(93, 4)),
      Profile(Rat(1, 32), Rat(9, 32), Rat(1, 64), Rat(1, 512), Num(3), Rat(29, 4)),
      Profile(Rat(1, 8), Rat(3, 8), Rat(1, 32), Rat(1, 256), Num(2), Zero),
      Profile(Rat(1, 16), Rat(5, 16), Rat(1, 8), Rat(1, 64), Num(1), Rat(143, 8)) }

TimedProfiles ==
    { Profile(Rat(1, 8), Rat(1, 4), Rat(1, 64), Rat(1, 256), Num(2), Zero),
      Profile(Rat(1, 4), Rat(21, 64), Rat(1, 64), Rat(1, 256), Num(2), Num(4)),
      Profile(Rat(1, 8), Rat(1, 4), Rat(1, 32), Rat(1, 128), Num(4), Zero) }

\* the time targets, in seconds
TimeTargets == {28, 32}

Request(p, k, t) ==
    [v0 |-> p.v0, v |-> p.v, a |-> p.a, j |-> p.j,
     s |-> Add(p.base, Rat(k, 4)), t |-> Num(t), alpha |-> p.alpha]

Requests ==
    { Request(p, k, 0) : p \in Profiles, k \in 1..MaxS4 }
    \cup { Request(p, k, t) : p \in TimedProfiles, k \in 1..MaxS4, t \in TimeTargets }

(***************************************************************************)
(* motion_constraint.py                                                    *)
(***************************************************************************)
\* an attribute that has not been assigned yet
Unassigned == <<>>

Assigned(x) == <<x>>

ValueOf(o) == o[1]

MotionConstraint(v0, v, a, j, s, t) ==
    [v0 |-> v0, v |-> v, a |-> a, j |-> j, s |-> s, t |-> t,
     a_prev |-> Unassigned, v_prev |-> Unassigned]

update_a(c, a) == [c EXCEPT !.a_prev = Assigned(c.a), !.a = a]

restore_a(c) == [c EXCEPT !.a = ValueOf(c.a_prev)]

\* update_v writing the start velocity instead of the velocity limit
update_v0(c, v) == [c EXCEPT !.v_prev = Assigned(c.v), !.v0 = v]

update_v(c, v) == [c EXCEPT !.v_prev = Assigned(c.v), !.v = v]

restore_v(c) == [c EXCEPT !.v = ValueOf(c.v_prev)]

(***************************************************************************)
(* s_curve_full.py, curve.py: the constraint solvers                       *)
(***************************************************************************)
\* the displacements of segments 1, 2, 3 under the constraints c
get_min_displacement(c) ==
    << Div(Add(Mul(Num(6), Mul(c.a, Mul(c.j, c.v0))), Cube(c.a)),
           Mul(Num(6), Sq(c.j))),
       Div(Sub(Sub(Sub(Mul(Sq(c.v), c.j), Mul(Sq(c.a), c.v)),
                   Mul(Sq(c.v0), c.j)), Mul(Sq(c.a), c.v0)),
           Mul(Num(2), Mul(c.a, c.j))),
       Div(Sub(Mul(Num(6), Mul(c.v, Mul(c.a, c.j))), Cube(c.a)),
           Mul(Num(6), Sq(c.j))) >>

\* floats hold the constraints c and the displacements min_s they give:
\* the floats of lines 28-34 and 91-95 are then computed without rounding
DisplacementsHeld(min_s, c, beta) ==
    AllHeld({c.v0, c.v, c.a, c.j, c.s, beta, min_s[1], min_s[2], min_s[3]})

\* The results "sum(min_s) <= self.c.s / 2" of line 95 can give.  A
\* bisection candidate v is the root of the equation that makes
\* s1 + s2 + s3 equal to S / 2, so the two sides are equal under it.
SumWithinHalf(total, half, held) == LeResults(total, half, held)

\* lines 91-93 without the comparison of line 95
CheckDisplacementsUnsummed(min_s, c, beta) ==
    IF \E i \in 1..3 : Lt(min_s[i], beta) THEN {FALSE} ELSE {TRUE}

\* __check_min_displacement__ on the displacements min_s: False when a
\* test "s < self.beta" of line 92 is true, the result of line 95 otherwise
CheckDisplacements(min_s, c, beta) ==
    UNION { IF below1 THEN {FALSE} ELSE
            UNION { IF below2 THEN {FALSE} ELSE
                    UNION { IF below3 THEN {FALSE} ELSE
                            SumWithinHalf(Add(Add(min_s[1], min_s[2]), min_s[3]),
                                          Div(c.s, Num(2)),
                                          DisplacementsHeld(min_s, c, beta)) :
                            below3 \in LtResults(min_s[3], beta,
                                                 DisplacementsHeld(min_s, c, beta)) } :
                    below2 \in LtResults(min_s[2], beta,
                                         DisplacementsHeld(min_s, c, beta)) } :
            below1 \in LtResults(min_s[1], beta, DisplacementsHeld(min_s, c, beta)) }

\* the results __check_min_displacement__ can give under the constraints c
check_min_displacement(c, beta) ==
    CheckDisplacements(get_min_displacement(c), c, beta)

RECURSIVE CeilLog2Up(_, _)
\* smallest n' >= n with x <= 2^n'
CeilLog2Up(x, n) == IF Le(x, Num(2 ^ n)) THEN n ELSE CeilLog2Up(x, n + 1)

\* math.ceil(math.log2(x)) for x > 0; a result <= 0 makes range(its) empty,
\* so it is reported as 0
CeilLog2(x) == CeilLog2Up(x, 0)

\* lines 462 and 519: the iterations for the interval (0, max_a].  No float
\* holds solve_error, so the quotient computed for a max_a that is a power
\* of two times solve_error lies at that power or beside it.
Iterations(max_a) ==
    IF Eq(Div(Sub(max_a, Zero), solve_error),
          Num(2 ^ CeilLog2(Div(Sub(max_a, Zero), solve_error))))
    THEN {CeilLog2(Div(Sub(max_a, Zero), solve_error)),
          CeilLog2(Div(Sub(max_a, Zero), solve_error)) + 1}
    ELSE {CeilLog2(Div(Sub(max_a, Zero), solve_error))}

\* line 499
a_peak(c) == Sqrt(Mul(c.j, Sub(c.v, c.v0)))

\* lines 501-507: the acceleration that gives segment 2 min_segment_steps steps
Preconditioned(c, beta) ==
    IF Lt(a_peak(c), c.a)
    THEN update_a(c, solve_second_order_pos(
                         Add(c.v, c.v0),
                         Mul(Num(2 * min_segment_steps), Mul(beta, c.j)),
                         Neg(Mul(c.j, Sub(Sq(c.v), Sq(c.v0))))))
    ELSE c

\* line 532: the candidate velocity for the candidate acceleration c.a
CandidateVelocity(c) ==
    solve_second_order_pos(
        Num(1),
        Div(Sq(c.a), c.j),
        Sub(Sub(Div(Mul(Sq(c.a), c.v0), c.j), Sq(c.v0)), Mul(c.s, c.a)))

\* floats hold the constraints c, the quotient of line 532 and the
\* candidate velocity v: v is then computed without rounding
TrialHeld(c, v) ==
    AllHeld({c.v0, c.v, c.a, c.j, c.s, Div(Sq(c.a), c.j), v})

\* line 534 without its test against the velocity ceiling
IsCandidateAboveEntry(c, v) ==
    IF IsNaN(v) THEN {FALSE} ELSE LtResults(c.v0, v, TrialHeld(c, v))

\* The results the test of line 534 can give.  The trial acceleration is
\* a float of the request halved, or of the preconditioned acceleration
\* halved, which floats need not hold.
IsCandidate(c, v) ==
    IF IsNaN(v) THEN {FALSE}
    ELSE UNION { IF above THEN LtResults(v, c.v, TrialHeld(c, v)) ELSE {FALSE} :
                   above \in LtResults(c.v0, v, TrialHeld(c, v)) }

\* lines 534-552 without the displacement check of line 540
TrialResultsUnchecked(c, v, beta, candidate) ==
    IF candidate THEN {TRUE} ELSE {FALSE}

\* lines 534-552: the results of a trial, TRUE for an accepted one, the
\* test of line 534 having given candidate
TrialResults(c, v, beta, candidate) ==
    IF candidate THEN check_min_displacement(update_v(c, v), beta) ELSE {FALSE}

\* the constraints after a trial with candidate velocity v (lines 538-554)
AfterTrial(c, v, candidate) ==
    restore_a(IF candidate THEN restore_v(update_v(c, v)) ELSE c)

\* lines 423-427: the velocity that meets the time target with acceleration c.a
TimedVelocity(c) ==
    solve_second_order_neg(
        c.j,
        Add(Sub(Neg(Mul(Mul(c.a, c.j), c.t)), Mul(Num(2), Mul(c.j, c.v0))),
            Sq(c.a)),
        Add(Sub(Mul(c.j, Sq(c.v0)), Mul(Sq(c.a), c.v0)), Mul(Mul(c.a, c.j), c.s)))

\* floats hold the constraints c, the quotient of line 421 and the
\* velocity v_ of lines 423-427: v_ is then computed without rounding
TimedHeld(c, v_) ==
    AllHeld({c.v0, c.v, c.a, c.j, c.s, c.t, Div(Sq(c.a), c.j), v_})

\* line 429 without its test against the velocity ceiling
IsTimedCandidateAboveMin(c, v_) ==
    IF IsNaN(v_) THEN {FALSE}
    ELSE LtResults(Add(c.v0, Div(Sq(c.a), c.j)), v_, TimedHeld(c, v_))

\* the results the test of line 429 can give, with min_v of line 421
IsTimedCandidate(c, v_) ==
    IF IsNaN(v_) THEN {FALSE}
    ELSE UNION { IF above THEN LeResults(v_, c.v, TimedHeld(c, v_)) ELSE {FALSE} :
                   above \in LtResults(Add(c.v0, Div(Sq(c.a), c.j)), v_,
                                       TimedHeld(c, v_)) }

\* line 451: the displacement is covered at the entry velocity within the
\* time target
TimeTargetUnreachable(c) == Le(c.s, Mul(c.v0, c.t))

\* the results __solve_time_and_motion_constraints_step__ can give, the
\* test of line 429 having given candidate
TimeStepResults(c, v_, beta, candidate) ==
    IF candidate THEN check_min_displacement(update_v(c, v_), beta) ELSE {FALSE}

\* the constraints after the step has given the result ok (lines 429-438)
AfterTimeStep(c, v_, candidate, ok) ==
    IF ok THEN update_v(restore_v(update_v(c, v_)), v_)
    ELSE IF candidate THEN restore_v(update_v(c, v_))
    ELSE c

(***************************************************************************)
(* State                                                                   *)
(***************************************************************************)
VARIABLES
    caller,            \* what the caller runs: SCurveFull(c, alpha).solve() or
                       \* Motion(c, alpha).simulate()
    request,           \* the MotionConstraint arguments and alpha the caller passed
    c,                 \* the MotionConstraint object, shared by caller and curve (self.c = c)
    pc,                \* position inside solve()
    solved,            \* the local "solved" of Curve.solve
    result,            \* how the call ended: "true", "false" or the exception raised
    ms,                \* locals of the constraint solver being run, and in
                       \* "entry" the a and v the constraint had on entry
    b,                 \* locals of __bounds__: a record of the names assigned so far
    segments,          \* Curve.segments
    discreteSegments,  \* Curve.discreteSegments
    hasSegment4,       \* Curve.hasSegment4
    deltas,            \* Curve.deltas
    emitted,           \* per entry of deltas: the segment, the displacement from the
                       \* segment's entry the step is placed at, and the local t of
                       \* __discretize__ after the step
    dseg               \* __discretize__: how many discrete segments have been processed

vars == <<caller, request, c, pc, solved, result, ms, b, segments,
          discreteSegments, hasSegment4, deltas, emitted, dseg>>

alpha == request.alpha

\* Curve.beta
beta == Inv(alpha)

NoSolverLocals ==
    [entry |-> Unassigned, min_a |-> Zero, max_a |-> Zero, min_v |-> Unassigned,
     its |-> 0, it |-> 0]

\* the locals on entry to a solver, the constraints being c0
SolverEntered(c0) ==
    [NoSolverLocals EXCEPT !.entry = Assigned([a |-> c0.a, v |-> c0.v])]

\* no local name assigned yet
NoLocals == <<>>

Init ==
    /\ caller \in {"SCurveFull", "Motion"}
    /\ request \in Requests
    /\ c = MotionConstraint(request.v0, request.v, request.a, request.j,
                            request.s, request.t)
    /\ pc = "start"
    /\ solved = FALSE
    /\ result = "none"
    /\ ms = NoSolverLocals
    /\ b = NoLocals
    /\ segments = <<>>
    /\ discreteSegments = <<>>
    /\ hasSegment4 = FALSE
    /\ deltas = <<>>
    /\ emitted = <<>>
    /\ dseg = 0

(***************************************************************************)
(* motion.py.  Loading the module runs "from s_curve_partial import        *)
(* SCurvePartial", which runs s_curve_partial.py, whose line 6 imports     *)
(* names from curve.py.                                                    *)
(***************************************************************************)
\* the classes curve.py defines
CurveModuleNames ==
    {"CurveSegment", "ContinuousCurveSegment", "DiscreteCurveSegment", "Curve"}

\* the names s_curve_partial.py imports from curve
PartialImportsFromCurve ==
    {"Curve", "CurvePhase", "ContinuousCurvePhase", "DiscreteCurvePhase"}

ImportMotion ==
    /\ pc = "start"
    /\ caller = "Motion"
    /\ ~(PartialImportsFromCurve \subseteq CurveModuleNames)
    /\ pc' = "done"
    /\ result' = "ImportError"
    /\ UNCHANGED <<caller, request, c, solved, ms, b, segments,
                   discreteSegments, hasSegment4, deltas, emitted, dseg>>

(***************************************************************************)
(* Curve.solve, entered directly on an SCurveFull                          *)
(***************************************************************************)
Solve_Enter ==
    /\ pc = "start"
    /\ caller = "SCurveFull"
    /\ pc' = "solve_motion"
    /\ UNCHANGED <<caller, request, c, solved, result, ms, b, segments,
                   discreteSegments, hasSegment4, deltas, emitted, dseg>>

\* __solve_motion_constraints__ up to the bisection loop (lines 496-519)
SolveMotion_Enter ==
    /\ pc = "solve_motion"
    /\ LET Enter(c1) ==
               \E ok \in check_min_displacement(c1, beta) :
                 /\ c' = c1
                 /\ IF ok
                    THEN /\ solved' = TRUE
                         /\ pc' = "motion_returned"
                         /\ ms' = SolverEntered(c)
                    ELSE /\ \E its \in Iterations(c1.a) :
                                ms' = [SolverEntered(c) EXCEPT
                                           !.max_a = c1.a, !.its = its]
                         /\ pc' = "motion_bisect"
                         /\ UNCHANGED solved
       IN  Enter(Preconditioned(c, beta))
    /\ UNCHANGED <<caller, request, result, b, segments, discreteSegments,
                   hasSegment4, deltas, emitted, dseg>>

\* one pass of the bisection loop of __solve_motion_constraints__ (lines 521-554)
SolveMotion_Trial ==
    /\ pc = "motion_bisect"
    /\ ms.it < ms.its
    /\ LET Try(c1, v) ==
               \E candidate \in IsCandidate(c1, v) :
                 \E ok \in TrialResults(c1, v, beta, candidate) :
                   /\ ms' = IF ok
                            THEN [ms EXCEPT !.min_a = c1.a, !.min_v = Assigned(v),
                                            !.it = @ + 1]
                            ELSE [ms EXCEPT !.max_a = c1.a, !.it = @ + 1]
                   /\ c' = AfterTrial(c1, v, candidate)
           TryAcceleration(c1) == Try(c1, CandidateVelocity(c1))
       IN  TryAcceleration(update_a(c, Mul(Rat(1, 2), Add(ms.min_a, ms.max_a))))
    /\ UNCHANGED <<caller, request, pc, solved, result, b, segments,
                   discreteSegments, hasSegment4, deltas, emitted, dseg>>

\* __solve_motion_constraints__ after the bisection loop (lines 556-564)
SolveMotion_Finish ==
    /\ pc = "motion_bisect"
    /\ ms.it = ms.its
    /\ IF Sign(ms.min_a) > 0
       THEN /\ c' = update_v(update_a(c, ms.min_a), ValueOf(ms.min_v))
            /\ solved' = TRUE
       ELSE /\ solved' = FALSE
            /\ UNCHANGED c
    /\ pc' = "motion_returned"
    /\ UNCHANGED <<caller, request, result, ms, b, segments, discreteSegments,
                   hasSegment4, deltas, emitted, dseg>>

(***************************************************************************)
(* Curve.solve line 230: with a time target the result of                  *)
(* __solve_time_and_motion_constraints__ replaces the one of               *)
(* __solve_motion_constraints__                                            *)
(***************************************************************************)
\* __solve_time_and_motion_constraints__ up to the bisection loop (lines 451-462)
SolveTime_Enter ==
    /\ pc = "motion_returned"
    /\ Sign(c.t) > 0
    /\ IF TimeTargetUnreachable(c)
       THEN /\ solved' = FALSE
            /\ pc' = "time_returned"
            /\ ms' = SolverEntered(c)
            /\ UNCHANGED c
       ELSE LET Step(v_) ==
                    \E candidate \in IsTimedCandidate(c, v_) :
                      \E ok \in TimeStepResults(c, v_, beta, candidate) :
                        /\ c' = AfterTimeStep(c, v_, candidate, ok)
                        /\ IF ok
                           THEN /\ solved' = TRUE
                                /\ pc' = "time_returned"
                                /\ ms' = SolverEntered(c)
                           ELSE /\ \E its \in Iterations(c.a) :
                                       ms' = [SolverEntered(c) EXCEPT
                                                  !.max_a = c.a, !.its = its]
                                /\ pc' = "time_bisect"
                                /\ UNCHANGED solved
            IN  Step(TimedVelocity(c))
    /\ UNCHANGED <<caller, request, result, b, segments, discreteSegments,
                   hasSegment4, deltas, emitted, dseg>>

\* one pass of the bisection loop of __solve_time_and_motion_constraints__
\* (lines 464-478)
SolveTime_Trial ==
    /\ pc = "time_bisect"
    /\ ms.it < ms.its
    /\ LET Try(c1, v_) ==
               \E candidate \in IsTimedCandidate(c1, v_) :
                 \E ok \in TimeStepResults(c1, v_, beta, candidate) :
                   /\ ms' = IF ok
                            THEN [ms EXCEPT !.min_a = c1.a, !.min_v = Assigned(v_),
                                            !.it = @ + 1]
                            ELSE [ms EXCEPT !.max_a = c1.a, !.it = @ + 1]
                   /\ c' = restore_a(AfterTimeStep(c1, v_, candidate, ok))
           TryAcceleration(c1) == Try(c1, TimedVelocity(c1))
       IN  TryAcceleration(update_a(c, Mul(Rat(1, 2), Add(ms.min_a, ms.max_a))))
    /\ UNCHANGED <<caller, request, pc, solved, result, b, segments,
                   discreteSegments, hasSegment4, deltas, emitted, dseg>>

\* __solve_time_and_motion_constraints__ after the bisection loop (lines 480-486)
SolveTime_Finish ==
    /\ pc = "time_bisect"
    /\ ms.it = ms.its
    /\ IF Sign(ms.min_a) > 0
       THEN /\ c' = update_v(update_a(c, ms.min_a), ValueOf(ms.min_v))
            /\ solved' = TRUE
       ELSE /\ solved' = FALSE
            /\ UNCHANGED c
    /\ pc' = "time_returned"
    /\ UNCHANGED <<caller, request, result, ms, b, segments, discreteSegments,
                   hasSegment4, deltas, emitted, dseg>>

\* lines 228-231 without the time-and-motion solver
ConstraintsSolvedByMotion == pc = "motion_returned" \/ pc = "time_returned"

\* Curve.solve has run the constraint solvers (lines 228-231)
ConstraintsSolved ==
    (pc = "motion_returned" /\ Sign(c.t) <= 0) \/ pc = "time_returned"

(***************************************************************************)
(* SCurveFull.__bounds__.  Its local variables are the record b: a name is *)
(* a field of b once it has been assigned.  The method is one action per   *)
(* segment; each block of the method is an operator from the locals before *)
(* the block to the locals after it.                                       *)
(***************************************************************************)
\* name has been assigned
Has(l, name) == name \in DOMAIN l

\* lines 69-81: s3_d is not among the names assigned (line 81 assigns
\* s2_d a second time)
StepCounts(min_s) ==
    [total_stp |-> Floor(Mul(c.s, alpha)),
     s1 |-> min_s[1], s2 |-> min_s[2], s3 |-> min_s[3],
     s1_stp |-> s_to_steps(min_s[1], alpha),
     s2_stp |-> s_to_steps(min_s[2], alpha),
     s3_stp |-> s_to_steps(min_s[3], alpha),
     s1_d |-> Mul(Num(s_to_steps(min_s[1], alpha)), beta),
     s2_d |-> Mul(Num(s_to_steps(min_s[2], alpha)), beta)]

\* floats hold the constraints and the displacements s1, s2, s3 they give:
\* the displacements __bounds__ derives from them by sums, differences and
\* products with step counts are then computed without rounding
BoundsHeld(l) ==
    AllHeld({c.v0, c.v, c.a, c.j, c.s, beta, l.s1, l.s2, l.s3})

\* ContinuousCurveSegment(id, t, vi, ve, ai, ae, j, si, se) on the locals
Continuous(l, id) ==
    ContinuousCurveSegment(id, l.t, l.vi, l.ve, l.ai, l.ae, l.j, l.si, l.se)

\* DiscreteCurveSegment(id, t, vi, ve, ai, ae, j, si, se, stpi, stpe, td, t0, s0)
Discrete(l, id, td, t0, s0) ==
    DiscreteCurveSegment(id, l.t, l.vi, l.ve, l.ai, l.ae, l.j, l.si, l.se,
                         l.stpi, l.stpe, td, t0, s0)

\* lines 87-98
Segment1_Continuous(l) ==
    [t |-> Div(c.a, c.j), ai |-> Zero, ae |-> c.a, j |-> c.j, vi |-> c.v0,
     ve |-> Add(c.v0, Div(Sq(c.a), Mul(Num(2), c.j))),
     s |-> l.s1, si |-> Zero, se |-> l.s1,
     segment1 |-> ContinuousCurveSegment(
                      1, Div(c.a, c.j), c.v0,
                      Add(c.v0, Div(Sq(c.a), Mul(Num(2), c.j))),
                      Zero, c.a, c.j, Zero, l.s1)] @@ l

\* lines 108-114, after lines 102-106 have set the four names to 0: the
\* locals each result of math.ceil (line 114) leaves
Segment1_Residual(l) ==
    IF GtEpsilon(Sub(l.s1, l.s1_d))
    THEN { [t1_err  |-> TSub(TNum(l.t), TimeAt(l.segment1, l.s1_d)),
            s1_err  |-> Sub(l.s1, l.s1_d),
            t_err   |-> TSub(TNum(l.t), TimeAt(l.segment1, l.s1_d)),
            s_err   |-> Sub(l.s1, l.s1_d),
            stp_err |-> stp_err] @@ l :
           stp_err \in CeilResults(Mul(Sub(l.s1, l.s1_d), alpha), BoundsHeld(l)) }
    ELSE {l}

\* lines 102-117
Segment1_Discrete(l) ==
    { [stpi |-> 1, stpe |-> l.s1_stp] @@ residual :
        residual \in Segment1_Residual([t_err |-> TZero, s_err |-> Zero,
                                        t1_err |-> TZero, s1_err |-> Zero] @@ l) }

\* lines 126-138
Segment2_Continuous(l) ==
    [t |-> Div(Sub(Sub(c.v, c.v0), Div(Sq(c.a), c.j)), c.a),
     ai |-> l.ae, ae |-> l.ae, j |-> Zero, vi |-> l.ve,
     ve |-> Sub(c.v, Div(Sq(c.a), Mul(Num(2), c.j))),
     s |-> l.s2, si |-> l.se, se |-> Add(l.se, l.s2),
     segment2 |-> ContinuousCurveSegment(
                      2, Div(Sub(Sub(c.v, c.v0), Div(Sq(c.a), c.j)), c.a),
                      l.ve, Sub(c.v, Div(Sq(c.a), Mul(Num(2), c.j))),
                      l.ae, l.ae, Zero, l.se, Add(l.se, l.s2))] @@ l

\* lines 155-164, with s2_stp = s_to_steps(s2 - s_fix_err) of line 155 given
Segment2_Fixed(l, s2_stp) ==
    [s2_d |-> Add(l.s_fix_err, Mul(Num(s2_stp), beta)),
     s2_stp |-> s2_stp + l.stp_err,
     t2_d |-> TAdd(l.t_err, l.t2_0),
     s_err |-> Zero, t_err |-> TZero, stp_err |-> 0] @@ l

\* lines 150-170, with s_fix_err of line 149 assigned: the locals each
\* result of the test of line 150 leaves
Segment2_Fix(l) ==
    { IF enough
      THEN Segment2_Fixed([t2_0 |-> TimeAt(l.segment2, l.s_fix_err),
                           s2_0 |-> l.s_fix_err] @@ l,
                          s_to_steps(Sub(l.s2, l.s_fix_err), alpha))
      ELSE [s_err |-> Add(l.s_err, l.s2), t_err |-> TAdd(l.t_err, TNum(l.t))] @@ l :
      enough \in LeResults(l.s_fix_err, l.s2, BoundsHeld(l)) }

\* lines 147-170
Segment2_Absorb(l) ==
    IF l.stp_err > 0
    THEN Segment2_Fix([s_fix_err |-> Sub(Mul(Num(l.stp_err), beta), l.s1_err)] @@ l)
    ELSE {l}

\* lines 176-178, with t2_err and s2_err of lines 173-174 assigned: the
\* locals each result of math.ceil (line 178) leaves
Segment2_Accumulate(l) ==
    { [t_err |-> TAdd(l.t_err, l.t2_err),
       s_err |-> Add(l.s_err, l.s2_err),
       stp_err |-> stp_err] @@ l :
      stp_err \in CeilResults(Mul(Add(l.s_err, l.s2_err), alpha), BoundsHeld(l)) }

\* lines 172-178
Segment2_Residual(l) ==
    IF GtEpsilon(Sub(l.s2, l.s2_d))
    THEN Segment2_Accumulate(
             [t2_err |-> TSub(TNum(l.t), TimeAt(l.segment2, l.s2_d)),
              s2_err |-> Sub(l.s2, l.s2_d)] @@ l)
    ELSE {l}

\* lines 180-181
Segment2_Steps(l) == [stpi |-> l.stpe + 1, stpe |-> l.stpe + l.s2_stp] @@ l

\* lines 141-181
Segment2_Discrete(l) ==
    { Segment2_Steps(residual) :
        residual \in UNION { Segment2_Residual(absorbed) :
            absorbed \in Segment2_Absorb(
                [t2_err |-> TZero, s2_err |-> Zero, s2_0 |-> Zero, t2_0 |-> TZero,
                 t2_d |-> TZero] @@ l) } }

\* lines 190-202
Segment3_Continuous(l) ==
    [t |-> Div(c.a, c.j), ai |-> l.ae, ae |-> Zero, j |-> Neg(c.j),
     vi |-> l.segment2.ve, ve |-> c.v,
     s |-> l.s3, si |-> l.se, se |-> Add(l.se, l.s3),
     segment3 |-> ContinuousCurveSegment(
                      3, Div(c.a, c.j), l.segment2.ve, c.v, l.ae, Zero, Neg(c.j),
                      l.se, Add(l.se, l.s3))] @@ l

\* lines 219-228, with s3_stp = s_to_steps(s3 - s_fix_err) of line 219 given
Segment3_Fixed(l, s3_stp) ==
    [s3_d |-> Add(l.s_fix_err, Mul(Num(s3_stp), beta)),
     s3_stp |-> s3_stp + l.stp_err,
     t3_d |-> TAdd(l.t_err, l.t3_0),
     s_err |-> Zero, t_err |-> TZero, stp_err |-> 0] @@ l

\* lines 214-234, with s_fix_err of line 213 assigned: the locals each
\* result of the test of line 214 leaves
Segment3_Fix(l) ==
    { IF enough
      THEN Segment3_Fixed([t3_0 |-> TimeAt(l.segment3, l.s_fix_err),
                           s3_0 |-> l.s_fix_err] @@ l,
                          s_to_steps(Sub(l.s3, l.s_fix_err), alpha))
      ELSE [s_err |-> Add(l.s_err, l.s3), t_err |-> TAdd(l.t_err, TNum(l.t))] @@ l :
      enough \in LeResults(l.s_fix_err, l.s3, BoundsHeld(l)) }

\* lines 205-234
Segment3_Absorb(l) ==
    IF l.stp_err > 0
    THEN Segment3_Fix([s_fix_err |-> Sub(Mul(Num(l.stp_err), beta), l.s_err)] @@ l)
    ELSE {l}

\* lines 240-242, with t3_err and s3_err of lines 237-238 assigned: the
\* locals each result of math.ceil (line 242) leaves
Segment3_Accumulate(l) ==
    { [t_err |-> TAdd(l.t_err, l.t3_err),
       s_err |-> Add(l.s_err, l.s3_err),
       stp_err |-> stp_err] @@ l :
      stp_err \in CeilResults(Mul(Add(l.s_err, l.s3_err), alpha), BoundsHeld(l)) }

\* lines 236-242; s3_d must have been assigned
Segment3_Residual(l) ==
    IF GtEpsilon(Sub(l.s3, l.s3_d))
    THEN Segment3_Accumulate(
             [t3_err |-> TSub(TNum(l.t), TimeAt(l.segment3, l.s3_d)),
              s3_err |-> Sub(l.s3, l.s3_d)] @@ l)
    ELSE {l}

\* lines 244-245
Segment3_Steps(l) == [stpi |-> l.stpe + 1, stpe |-> l.stpe + l.s3_stp] @@ l

\* lines 205-234
Segment3_Absorbed(l) ==
    Segment3_Absorb([t3_err |-> TZero, s3_err |-> Zero, s3_0 |-> Zero,
                     t3_0 |-> TZero, t3_d |-> TZero] @@ l)

\* line 254
Segment4_Displacement(l) ==
    [s4 |-> Sub(c.s, Mul(Num(2), Add(Add(l.s1, l.s2), l.s3)))] @@ l

\* lines 257-272, the locals each result of math.floor (line 257) leaves:
\* s4_d is the number of whole steps in s4, not a displacement
Segment4_Continuous(l) ==
    { [s4_d |-> Num(s4_d),
       ai |-> Zero, ae |-> Zero, j |-> Zero, vi |-> l.ve, ve |-> l.ve,
       s |-> l.s4, t |-> Div(l.s4, l.ve), si |-> l.se, se |-> Add(l.se, l.s4),
       segment4 |-> ContinuousCurveSegment(
                        4, Div(l.s4, l.ve), l.ve, l.ve, Zero, Zero, Zero,
                        l.se, Add(l.se, l.s4))] @@ l :
      s4_d \in FloorResults(Mul(l.s4, alpha), BoundsHeld(l)) }

\* lines 289-298, with s4_stp = s_to_steps(s4 - 2 * s_fix_err) of line 289 given
Segment4_Fixed(l, s4_stp) ==
    [s4_d |-> Add(l.s_fix_err, Mul(Num(s4_stp), beta)),
     s4_stp |-> s4_stp + l.stp_err,
     t4_d |-> TAdd(l.t_err, l.t4_0),
     s_err |-> Zero, t_err |-> TZero, stp_err |-> 0] @@ l

\* The results "2 * s_fix_err <= s4" of line 284 can give.  The two sides
\* are equal exactly when the steps counted so far, stp_err included, make
\* up half of S * alpha; the floats of the two sides reach that value
\* along different computations.
Segment4_Enough(l) == LeResults(Mul(Num(2), l.s_fix_err), l.s4, BoundsHeld(l))

\* lines 284-304, with s_fix_err of line 283 assigned: the locals each
\* result of the test of line 284 leaves
Segment4_Fix(l) ==
    { IF enough
      THEN Segment4_Fixed([t4_0 |-> TNum(Div(l.s_fix_err, l.vi)),
                           s4_0 |-> l.s_fix_err] @@ l,
                          s_to_steps(Sub(l.s4, Mul(Num(2), l.s_fix_err)), alpha))
      ELSE [s_err |-> Add(l.s_err, l.s4), t_err |-> TAdd(l.t_err, TNum(l.t))] @@ l :
      enough \in Segment4_Enough(l) }

\* lines 281-304
Segment4_Absorb(l) ==
    IF l.stp_err > 0
    THEN Segment4_Fix([s_fix_err |-> Sub(Mul(Num(l.stp_err), beta), l.s_err)] @@ l)
    ELSE {l}

\* lines 310-312, with t4_err and s4_err of lines 307-308 assigned: the
\* locals each result of math.ceil (line 312) leaves
Segment4_Accumulate(l) ==
    { [t_err |-> TAdd(l.t_err, l.t4_err),
       s_err |-> Add(l.s_err, l.s4_err),
       stp_err |-> stp_err] @@ l :
      stp_err \in CeilResults(Mul(Add(l.s_err, l.s4_err), alpha), BoundsHeld(l)) }

\* lines 306-312
Segment4_Residual(l) ==
    IF GtEpsilon(Sub(l.s4, l.s4_d))
    THEN Segment4_Accumulate(
             [t4_err |-> TNum(Sub(l.t, Div(l.s4_d, l.vi))),
              s4_err |-> Sub(l.s4, l.s4_d)] @@ l)
    ELSE {l}

\* lines 314-315 with the range starting at the last step of segment 3
Segment4_StepsOverlapping(l) ==
    [stpi |-> l.stpe, stpe |-> l.stpe + l.s4_stp] @@ l

\* lines 314-315; s4_stp must have been assigned
Segment4_Steps(l) == [stpi |-> l.stpe + 1, stpe |-> l.stpe + l.s4_stp] @@ l

\* lines 275-312
Segment4_Discrete(l) ==
    UNION { Segment4_Residual(absorbed) :
        absorbed \in Segment4_Absorb(
            [t4_err |-> TZero, s4_err |-> Zero, s4_0 |-> Zero, t4_0 |-> TZero,
             t4_d |-> TZero] @@ l) }

\* lines 324-336 with segment 3's entry acceleration taken over unreflected
Segment5_Unreflected(l) ==
    [t |-> l.segment3.t, ai |-> l.ae, ae |-> l.segment3.ai,
     j |-> l.segment3.j, vi |-> l.ve, ve |-> l.segment3.vi,
     s |-> l.segment3.s, si |-> l.se, se |-> Add(l.se, l.segment3.s)] @@ l

\* lines 324-336
Segment5_Continuous(l) ==
    [t |-> l.segment3.t, ai |-> l.ae, ae |-> Neg(l.segment3.ai),
     j |-> l.segment3.j, vi |-> l.ve, ve |-> l.segment3.vi,
     s |-> l.segment3.s, si |-> l.se, se |-> Add(l.se, l.segment3.s)] @@ l

\* lines 339-341, the locals each result of math.ceil leaves.  s3_err is s3
\* less a positive displacement, or the 0 it was set to
Segment5_StepCount(l) ==
    IF Le(l.s3_err, l.s3)
    THEN { [s3_stp |-> s_to_steps(Sub(l.s3, l.s3_err), alpha) + rest] @@ l :
           rest \in CeilResults(Mul(l.s3_err, alpha), BoundsHeld(l)) }
    ELSE {l}

\* lines 343-344
Segment5_Steps(l) == [stpi |-> l.stpe + 1, stpe |-> l.stpe + l.s3_stp] @@ l

\* lines 346-349: the td of segment 5
Segment5_td(l, has4) ==
    IF ~has4 THEN TAdd(l.t3_err, l.t3_err) ELSE TAdd(l.t3_err, l.t4_0)

\* lines 357-369
Segment6_Continuous(l) ==
    [t |-> l.segment2.t, ai |-> Neg(l.segment2.ae), ae |-> Neg(l.segment2.ae),
     j |-> l.segment2.j, vi |-> l.segment2.ve, ve |-> l.segment2.vi,
     s |-> l.segment2.s, si |-> l.se, se |-> Add(l.se, l.segment2.s)] @@ l

\* lines 372-374, the locals each result of math.ceil leaves.  s2_err is s2
\* less a positive displacement, or the 0 it was set to
Segment6_StepCount(l) ==
    IF Le(l.s2_err, l.s2)
    THEN { [s2_stp |-> s_to_steps(Sub(l.s2, l.s2_err), alpha) + rest] @@ l :
           rest \in CeilResults(Mul(l.s2_err, alpha), BoundsHeld(l)) }
    ELSE {l}

\* lines 376-377
Segment6_Steps(l) == [stpi |-> l.stpe + 1, stpe |-> l.stpe + l.s2_stp] @@ l

\* lines 386-398 with segment 1's velocities taken over unswapped
Segment7_Unswapped(l) ==
    [t |-> l.segment1.t, ai |-> Neg(l.segment1.ae), ae |-> Neg(l.segment1.ai),
     j |-> l.segment1.j, vi |-> l.segment1.vi, ve |-> l.segment1.ve,
     s |-> l.segment1.s, si |-> l.se, se |-> Add(l.se, l.segment1.s)] @@ l

\* lines 386-398
Segment7_Continuous(l) ==
    [t |-> l.segment1.t, ai |-> Neg(l.segment1.ae), ae |-> Neg(l.segment1.ai),
     j |-> l.segment1.j, vi |-> l.segment1.ve, ve |-> l.segment1.vi,
     s |-> l.segment1.s, si |-> l.se, se |-> Add(l.se, l.segment1.s)] @@ l

\* lines 401-403, the locals each result of math.ceil leaves.  s1_err is s1
\* less a positive displacement, or the 0 it was set to
Segment7_StepCount(l) ==
    IF Le(l.s1_err, l.s1)
    THEN { [s1_stp |-> s_to_steps(Sub(l.s1, l.s1_err), alpha) + rest] @@ l :
           rest \in CeilResults(Mul(l.s1_err, alpha), BoundsHeld(l)) }
    ELSE {l}

\* lines 405-406
Segment7_Steps(l) == [stpi |-> l.stpe + 1, stpe |-> l.stpe + l.s1_stp] @@ l

\* an exception leaves __bounds__ and solve()
Raise(exception) ==
    /\ pc' = "done"
    /\ result' = exception
    /\ UNCHANGED <<b, discreteSegments>>

\* Curve.addSegment for a continuous segment
AddSegment(segment) ==
    /\ segments' = Append(segments, segment)
    /\ hasSegment4' = (hasSegment4 \/ segment.id = 4)

\* Curve.addSegment for a discrete segment; the locals are kept
AddDiscrete(l, segment) ==
    /\ discreteSegments' = Append(discreteSegments, segment)
    /\ b' = l

Bounds_Segment1 ==
    /\ ConstraintsSolved
    /\ solved
    /\ LET Add1(l) ==
               /\ AddSegment(l.segment1)
               /\ AddDiscrete(l, Discrete(l, 1, TZero, TZero, Zero))
       IN  \E l \in Segment1_Discrete(Segment1_Continuous(
                      StepCounts(get_min_displacement(c)))) : Add1(l)
    /\ pc' = "bounds2"
    /\ UNCHANGED <<caller, request, c, solved, result, ms, deltas, emitted, dseg>>

Bounds_Segment2 ==
    /\ pc = "bounds2"
    /\ LET Add2(l) ==
               AddDiscrete(l, Discrete(l, 2, l.t2_d, l.t2_0, l.s2_0))
           Characterized(l) ==
               /\ AddSegment(l.segment2)
               /\ IF ~Has(l, "stp_err")
                  THEN Raise("UnboundLocalError")
                  ELSE /\ \E l2 \in Segment2_Discrete(l) : Add2(l2)
                       /\ pc' = "bounds3"
                       /\ UNCHANGED result
       IN  Characterized(Segment2_Continuous(b))
    /\ UNCHANGED <<caller, request, c, solved, ms, deltas, emitted, dseg>>

Bounds_Segment3 ==
    /\ pc = "bounds3"
    /\ LET Add3(l) ==
               AddDiscrete(l, Discrete(l, 3, l.t3_d, l.t3_0, l.s3_0))
           Absorbed(l) ==
               /\ AddSegment(l.segment3)
               /\ IF ~Has(l, "s3_d")
                  THEN Raise("UnboundLocalError")
                  ELSE /\ \E l3 \in Segment3_Residual(l) : Add3(Segment3_Steps(l3))
                       /\ pc' = "bounds4"
                       /\ UNCHANGED result
       IN  \E l \in Segment3_Absorbed(Segment3_Continuous(b)) : Absorbed(l)
    /\ UNCHANGED <<caller, request, c, solved, ms, deltas, emitted, dseg>>

\* segment 4 is present when the displacement left over by segments 1-3
\* and their mirror images exceeds epsilon
Bounds_Segment4 ==
    /\ pc = "bounds4"
    /\ LET Add4(l) ==
               AddDiscrete(l, Discrete(l, 4, l.t4_d, l.t4_0, l.s4_0))
           Residual(l) ==
               /\ AddSegment(l.segment4)
               /\ IF ~Has(l, "s4_stp")
                  THEN Raise("UnboundLocalError")
                  ELSE /\ Add4(Segment4_Steps(l))
                       /\ pc' = "bounds5"
                       /\ UNCHANGED result
           Left(l) ==
               IF GtEpsilon(l.s4)
               THEN \E l0 \in Segment4_Continuous(l) :
                        \E l4 \in Segment4_Discrete(l0) : Residual(l4)
               ELSE /\ b' = l
                    /\ pc' = "bounds5"
                    /\ UNCHANGED <<result, segments, discreteSegments, hasSegment4>>
       IN  Left(Segment4_Displacement(b))
    /\ UNCHANGED <<caller, request, c, solved, ms, deltas, emitted, dseg>>

Bounds_Segment5 ==
    /\ pc = "bounds5"
    /\ LET Add5(l) ==
               /\ AddSegment(Continuous(l, 5))
               /\ AddDiscrete(l, Discrete(l, 5, Segment5_td(l, hasSegment4),
                                          l.t3_err, l.s3_err))
       IN  \E l \in Segment5_StepCount(Segment5_Continuous(b)) :
               Add5(Segment5_Steps(l))
    /\ pc' = "bounds6"
    /\ UNCHANGED <<caller, request, c, solved, result, ms, deltas, emitted, dseg>>

Bounds_Segment6 ==
    /\ pc = "bounds6"
    /\ LET Add6(l) ==
               /\ AddSegment(Continuous(l, 6))
               /\ AddDiscrete(l, Discrete(l, 6, TAdd(l.t3_0, l.t2_err),
                                          l.t2_err, l.s2_err))
       IN  \E l \in Segment6_StepCount(Segment6_Continuous(b)) :
               Add6(Segment6_Steps(l))
    /\ pc' = "bounds7"
    /\ UNCHANGED <<caller, request, c, solved, result, ms, deltas, emitted, dseg>>

\* segment 7, after which __bounds__ returns True
Bounds_Segment7 ==
    /\ pc = "bounds7"
    /\ LET Add7(l) ==
               /\ AddSegment(Continuous(l, 7))
               /\ AddDiscrete(l, Discrete(l, 7, TAdd(l.t2_0, l.t1_err),
                                          l.t1_err, l.s1_err))
       IN  \E l \in Segment7_StepCount(Segment7_Continuous(b)) :
               Add7(Segment7_Steps(l))
    /\ pc' = "discretize"
    /\ dseg' = 0
    /\ UNCHANGED <<caller, request, c, solved, result, ms, deltas, emitted>>

(***************************************************************************)
(* Curve.__discretize__, one action per discrete segment                   *)
(***************************************************************************)
\* line 145
Straddles(seg) == TPositive(seg.td) \/ Sign(seg.t) = 0

\* the displacement acc_s the loop holds before its m-th pass (m = 1, 2, ...)
AccS(seg, m) ==
    IF m = 1 THEN (IF Straddles(seg) THEN seg.s0 ELSE Zero)
    ELSE Add(seg.s0, Mul(Num(m - 1), beta))

\* the local t after the m-th pass of the loop (m = 0: before the loop,
\* lines 150 and 158).  getDelta of segments 1-3 and 5-7 assigns it the
\* time since the segment's entry; getDelta of segment 4 (lines 194-195)
\* never assigns it, so it keeps the value it had before the loop
StepTime(seg, m) ==
    IF m = 0 \/ seg.id = 4 THEN (IF Straddles(seg) THEN seg.t0 ELSE TZero)
    ELSE TimeAt(seg, Add(AccS(seg, m), beta))

\* getDelta on the m-th pass of the loop (lines 164-195)
GetDelta(seg, m) ==
    IF seg.id = 4 THEN TNum(Div(beta, seg.vi))
    ELSE TSub(StepTime(seg, m), StepTime(seg, m - 1))

\* the passes of a loop that runs once per step of the segment, whatever
\* step was on entry
PassesPerStep(seg, step0) == seg.stpe - seg.stpi + 1

\* the number of passes of the loop of line 199, entered with step = step0
Passes(seg, step0) == IF seg.stpe > step0 THEN seg.stpe - step0 ELSE 0

\* lines 145-160: the deltas a segment starts with
StraddleDelta(seg) == IF Straddles(seg) THEN <<seg.td>> ELSE <<>>

StraddleStep(seg) ==
    IF Straddles(seg) THEN <<[seg |-> seg.id, s |-> seg.s0, t |-> seg.t0]>> ELSE <<>>

\* lines 197-213: the deltas of the n passes of the loop
LoopDeltas(seg, n) == [m \in 1..n |-> GetDelta(seg, m)]

LoopSteps(seg, n) ==
    [m \in 1..n |-> [seg |-> seg.id, s |-> Add(AccS(seg, m), beta),
                     t |-> StepTime(seg, m)]]

Discretize_Segment ==
    /\ pc = "discretize"
    /\ dseg < Len(discreteSegments)
    /\ LET Segment(seg, deltas0, emitted0) ==
               IF seg.id \in {1, 3, 5, 7} /\ Sign(seg.vi) = 0
               THEN /\ deltas' = deltas0
                    /\ emitted' = emitted0
                    /\ pc' = "done"
                    /\ result' = "ZeroDivisionError"
                    /\ UNCHANGED dseg
               ELSE /\ deltas' = deltas0 \o LoopDeltas(seg, Passes(seg, Len(deltas0)))
                    /\ emitted' = emitted0 \o LoopSteps(seg, Passes(seg, Len(deltas0)))
                    /\ dseg' = dseg + 1
                    /\ IF dseg + 1 = Len(discreteSegments)
                       THEN pc' = "done" /\ result' = "true"
                       ELSE UNCHANGED <<pc, result>>
           Start(seg) ==
               Segment(seg,
                       (IF dseg = 0 THEN <<>> ELSE deltas) \o StraddleDelta(seg),
                       (IF dseg = 0 THEN <<>> ELSE emitted) \o StraddleStep(seg))
       IN  Start(discreteSegments[dseg + 1])
    /\ UNCHANGED <<caller, request, c, solved, ms, b, segments, discreteSegments,
                   hasSegment4>>

\* Curve.solve after the constraint solvers, when it does not go on
Solve_ReturnFalse ==
    /\ ConstraintsSolved
    /\ ~solved
    /\ pc' = "done"
    /\ result' = "false"
    /\ UNCHANGED <<caller, request, c, solved, ms, b, segments,
                   discreteSegments, hasSegment4, deltas, emitted, dseg>>

Next ==
    \/ ImportMotion
    \/ Solve_Enter
    \/ SolveMotion_Enter
    \/ SolveMotion_Trial
    \/ SolveMotion_Finish
    \/ SolveTime_Enter
    \/ SolveTime_Trial
    \/ SolveTime_Finish
    \/ Solve_ReturnFalse
    \/ Bounds_Segment1
    \/ Bounds_Segment2
    \/ Bounds_Segment3
    \/ Bounds_Segment4
    \/ Bounds_Segment5
    \/ Bounds_Segment6
    \/ Bounds_Segment7
    \/ Discretize_Segment

Spec == Init /\ [][Next]_vars

(***************************************************************************)
(* solve_third_order_newton returns NaN once its error estimate grows      *)
(* (curve_math.py lines 37-38).  With the roots taken exactly, as above,   *)
(* it never does.  In floating point it does where rounding outweighs the  *)
(* derivative of the cubic at the root: at the end of segment 7, where the *)
(* velocity is back at v0 and the acceleration at 0.  Rounding is not      *)
(* computed here; under SpecNaN the finder called for a step that lands on *)
(* the end of segment 7 returns either the root or NaN.                    *)
(***************************************************************************)
\* the time NaN
TNaN == [atoms |-> NoAtoms, lin |-> NaN]

\* the last of the n passes of the loop calls the finder for the end of
\* segment 7
NewtonMayFail(seg, n) ==
    seg.id = 7 /\ Sign(seg.vi) # 0 /\ n > 0 /\ Eq(Add(AccS(seg, n), beta), seg.s)

\* the deltas and steps of n passes, the finder returning NaN in the last:
\* delta = t - prev_t is NaN (line 169)
LoopDeltasNaN(seg, n) == [LoopDeltas(seg, n) EXCEPT ![n] = TNaN]

LoopStepsNaN(seg, n) == [LoopSteps(seg, n) EXCEPT ![n].t = TNaN]

\* __discretize__ on a segment in whose last step the finder returns NaN
Discretize_NaN ==
    /\ pc = "discretize"
    /\ dseg < Len(discreteSegments)
    /\ LET Segment(seg, deltas0, emitted0) ==
               /\ NewtonMayFail(seg, Passes(seg, Len(deltas0)))
               /\ deltas' = deltas0 \o LoopDeltasNaN(seg, Passes(seg, Len(deltas0)))
               /\ emitted' = emitted0 \o LoopStepsNaN(seg, Passes(seg, Len(deltas0)))
               /\ dseg' = dseg + 1
               /\ IF dseg + 1 = Len(discreteSegments)
                  THEN pc' = "done" /\ result' = "true"
                  ELSE UNCHANGED <<pc, result>>
           Start(seg) ==
               Segment(seg,
                       (IF dseg = 0 THEN <<>> ELSE deltas) \o StraddleDelta(seg),
                       (IF dseg = 0 THEN <<>> ELSE emitted) \o StraddleStep(seg))
       IN  Start(discreteSegments[dseg + 1])
    /\ UNCHANGED <<caller, request, c, solved, ms, b, segments, discreteSegments,
                   hasSegment4>>

NextNaN == Next \/ Discretize_NaN

SpecNaN == Init /\ [][NextNaN]_vars

(***************************************************************************)
(* solve() called again on the same curve object.  The object keeps its    *)
(* attributes from one call to the next: Curve.solve and __bounds__ assign *)
(* none of segments, discreteSegments, hasSegment4 before addSegment       *)
(* appends to them, and __discretize__ assigns deltas when it starts.      *)
(***************************************************************************)
\* the number of solve() calls that reach __bounds__ on one object
MaxSolves == 2

\* The next call is followed when the constraints the last one left are
\* rational: the arithmetic of the model is exact over one radicand, and
\* a_peak of an irrational velocity is outside it.
Solve_Again ==
    /\ pc = "done"
    /\ caller = "SCurveFull"
    /\ result \in {"true", "false"}
    /\ Len(segments) <= 7 * (MaxSolves - 1)
    /\ IsRational(c.a) /\ IsRational(c.v)
    /\ pc' = "solve_motion"
    /\ solved' = FALSE
    /\ result' = "none"
    /\ ms' = NoSolverLocals
    /\ b' = NoLocals
    /\ dseg' = 0
    /\ UNCHANGED <<caller, request, c, segments, discreteSegments, hasSegment4,
                   deltas, emitted>>

NextResolve == Next \/ Solve_Again

SpecResolve == Init /\ [][NextResolve]_vars

(***************************************************************************)
(* s_to_steps applied on its own, to displacements that are quarters of a  *)
(* unit and to displacements one half, one and two epsilons away from      *)
(* zero and from one.  1 - 1E-9 is left out: no float holds it, and the    *)
(* float nearest to it is less than epsilon away from 1.                   *)
(***************************************************************************)
MaxQuarters == 24

StepAlphas == 1..4

\* 1 / 2E9, 1 / 1E9 and 2 / 1E9
NearZero == {Rat(1, 2 * EpsilonDen), Rat(1, EpsilonDen), Rat(2, EpsilonDen)}

StepInputs ==
    { [s |-> Rat(k, 4), alpha |-> Num(a)] : k \in (0 - MaxQuarters)..MaxQuarters,
                                            a \in StepAlphas }
    \cup { [s |-> x, alpha |-> Num(1)] : x \in NearZero }
    \cup { [s |-> Neg(x), alpha |-> Num(1)] : x \in NearZero }
    \cup { [s |-> Sub(Num(1), x), alpha |-> Num(1)] :
               x \in NearZero \ {Rat(1, EpsilonDen)} }

InitSteps ==
    /\ caller = "s_to_steps"
    /\ request \in StepInputs
    /\ c = MotionConstraint(Zero, Zero, Zero, Zero, request.s, Zero)
    /\ pc = "start"
    /\ solved = FALSE
    /\ result = "none"
    /\ ms = NoSolverLocals
    /\ b = NoLocals
    /\ segments = <<>>
    /\ discreteSegments = <<>>
    /\ hasSegment4 = FALSE
    /\ deltas = <<>>
    /\ emitted = <<>>
    /\ dseg = 0

\* the call s_to_steps(s, alpha, 1E-9) returns
Apply_s_to_steps ==
    /\ pc = "start"
    /\ caller = "s_to_steps"
    /\ pc' = "done"
    /\ result' = s_to_steps(request.s, alpha)
    /\ UNCHANGED <<caller, request, c, solved, ms, b, segments,
                   discreteSegments, hasSegment4, deltas, emitted, dseg>>

NextSteps == Apply_s_to_steps

SpecSteps == InitSteps /\ [][NextSteps]_vars

(***************************************************************************)
(* Properties of SCurveFull.solve() and Motion.simulate()                  *)
(***************************************************************************)
\* the call has returned r
Returned(r) == pc = "done" /\ result = r

\* solve() has returned true
SolveReturnedTrue == caller = "SCurveFull" /\ Returned("true")

RECURSIVE StepCountSum(_)
\* the sum over the discrete segments ds of stpe - stpi + 1
StepCountSum(ds) ==
    IF ds = <<>> THEN 0
    ELSE (Head(ds).stpe - Head(ds).stpi + 1) + StepCountSum(Tail(ds))

\* C1: after every solve() that returns true with T = 0 the step counts of
\* the discrete segments sum to floor(S * alpha)
C1_StepCountsSumToTotal ==
    (SolveReturnedTrue /\ Sign(request.t) = 0) =>
        StepCountSum(discreteSegments) = Floor(Mul(request.s, alpha))

RECURSIVE TSum(_)
\* the sum of the times ts
TSum(ts) == IF ts = <<>> THEN TZero ELSE TAdd(Head(ts), TSum(Tail(ts)))

RECURSIVE DurationBefore(_, _)
\* the duration of the discrete segments ds whose id is below id
DurationBefore(ds, id) ==
    IF ds = <<>> \/ Head(ds).id >= id THEN Zero
    ELSE Add(Head(ds).t, DurationBefore(Tail(ds), id))

\* the discrete segment that emitted step k
OwnerOfStep(k) ==
    CHOOSE seg \in {discreteSegments[i] : i \in DOMAIN discreteSegments} :
        seg.id = emitted[k].seg

\* the displacement of the profile at step k: the step lies emitted[k].s
\* past the entry of its segment, and step 0 is the start of the motion
StepPosition(k) ==
    IF k = 0 THEN Zero ELSE Add(OwnerOfStep(k).si, emitted[k].s)

\* the time at which the profile reaches the displacement of step k
StepInstant(k) ==
    TAdd(TNum(DurationBefore(discreteSegments, emitted[k].seg)),
         TimeAt(OwnerOfStep(k), emitted[k].s))

\* C2: every step k >= 1 of a solved profile is emitted when the profile
\* has advanced exactly beta since step k - 1, straddle steps included: the
\* deltas up to step k add up to the time at which the profile reaches the
\* displacement of step k, and that displacement is beta past the
\* displacement of step k - 1
C2_EveryStepAdvancesBeta ==
    SolveReturnedTrue =>
        \A k \in DOMAIN emitted :
            /\ TSum(SubSeq(deltas, 1, k)) = StepInstant(k)
            /\ Eq(Sub(StepPosition(k), StepPosition(k - 1)), beta)

\* C3: whenever __solve_motion_constraints__ or
\* __solve_time_and_motion_constraints__ returns false, a and v of the
\* constraint are the values they had when that solver was entered, the
\* a_peak preconditioning included
C3_FailedSolverRestoresConstraint ==
    (pc \in {"motion_returned", "time_returned"} /\ ~solved) =>
        (Eq(c.a, ValueOf(ms.entry).a) /\ Eq(c.v, ValueOf(ms.entry).v))

\* C4: for every request within the preconditions (v0 >= 0, V > v0, A > 0,
\* J > 0, S > 0, T >= 0) solve() ends by returning true or false, never
\* abnormally
C4_SolveNeverEndsAbnormally ==
    (caller = "SCurveFull" /\ pc = "done") => result \in {"true", "false"}

\* C5: after solve() returns true or false, the MotionConstraint passed to
\* the constructor holds the v0, V, A, J, S, T it was created with
C5_RequestNotModified ==
    (caller = "SCurveFull" /\ (Returned("true") \/ Returned("false"))) =>
        /\ Eq(c.v0, request.v0) /\ Eq(c.v, request.v) /\ Eq(c.a, request.a)
        /\ Eq(c.j, request.j) /\ Eq(c.s, request.s) /\ Eq(c.t, request.t)

\* C6: Motion.simulate() runs the full solve, runs the partial solve only
\* if the full one returned false, and returns a boolean: a caller that goes
\* through Motion ends with true or false
C6_SimulateReturnsBoolean ==
    (caller = "Motion" /\ pc = "done") => result \in {"true", "false"}

\* consecutive segments of the list segs join in displacement, velocity
\* and acceleration
Adjacent(segs) ==
    \A k \in 1..(Len(segs) - 1) :
        /\ Eq(segs[k].se, segs[k + 1].si)
        /\ Eq(segs[k].ve, segs[k + 1].vi)
        /\ Eq(segs[k].ae, segs[k + 1].ai)

\* segment 4, where the list segs has it, has no acceleration
Segment4Cruises(segs) ==
    \A k \in DOMAIN segs :
        segs[k].id = 4 => (Sign(segs[k].ai) = 0 /\ Sign(segs[k].ae) = 0)

\* C7: on a solve that returned true, consecutive segments of the
\* continuous and of the discrete list satisfy se(k) = si(k+1),
\* ve(k) = vi(k+1), ae(k) = ai(k+1), and segment 4 has ai = ae = 0
C7_SegmentsAdjacent ==
    SolveReturnedTrue =>
        /\ Adjacent(segments) /\ Segment4Cruises(segments)
        /\ Adjacent(discreteSegments) /\ Segment4Cruises(discreteSegments)

\* C7: a solved profile with segment 4, seven segments in both lists
C7_Witness ==
    /\ SolveReturnedTrue
    /\ hasSegment4
    /\ Len(segments) = 7
    /\ Len(discreteSegments) = 7

\* |x| <= bound
WithinMagnitude(x, bound) == Le(x, bound) /\ Le(Neg(bound), x)

\* the segment seg respects the ceilings of the request
WithinCeilings(seg) ==
    /\ Le(request.v0, seg.vi) /\ Le(seg.vi, request.v)
    /\ Le(request.v0, seg.ve) /\ Le(seg.ve, request.v)
    /\ WithinMagnitude(seg.ai, request.a)
    /\ WithinMagnitude(seg.ae, request.a)
    /\ (Sign(seg.j) = 0 \/ Eq(seg.j, request.j) \/ Eq(Neg(seg.j), request.j))

\* C8: on a solve that returned true every continuous and every discrete
\* segment has v0 <= vi, ve <= V, |ai|, |ae| <= A and |j| in {0, J}, for
\* the V, A, J of the request
C8_SegmentsWithinCeilings ==
    SolveReturnedTrue =>
        /\ \A k \in DOMAIN segments : WithinCeilings(segments[k])
        /\ \A k \in DOMAIN discreteSegments : WithinCeilings(discreteSegments[k])

\* C8: a solved profile whose acceleration and velocity were tuned down
\* from the ceilings of the request
C8_Witness ==
    /\ SolveReturnedTrue
    /\ Lt(c.a, request.a)
    /\ Lt(c.v, request.v)
    /\ Len(segments) >= 6

\* segment mirror is the reflection of segment seg
Mirrors(mirror, seg) ==
    /\ Eq(mirror.t, seg.t)
    /\ Eq(mirror.s, seg.s)
    /\ Eq(mirror.vi, seg.ve)
    /\ Eq(mirror.ve, seg.vi)
    /\ Eq(mirror.ai, Neg(seg.ae))
    /\ Eq(mirror.ae, Neg(seg.ai))

\* C9: in the continuous list of a solved profile segments 5, 6, 7 are the
\* mirror images of segments 3, 2, 1: same duration and displacement,
\* velocities swapped, accelerations reflected
C9_DecelerationMirrorsAcceleration ==
    SolveReturnedTrue =>
        \A k \in DOMAIN segments : \A m \in DOMAIN segments :
            segments[k].id + segments[m].id = 8 /\ segments[m].id > 4
                => Mirrors(segments[m], segments[k])

\* C9: a solved profile without segment 4 whose velocity was tuned down to
\* an irrational value
C9_Witness ==
    /\ SolveReturnedTrue
    /\ ~hasSegment4
    /\ Len(segments) = 6
    /\ ~IsRational(c.v)

\* C10: the deltas of a solved profile are palindromic at picosecond
\* resolution: for every index i of the n deltas, floor(deltas[i] * 10^12)
\* equals floor(deltas[n + 1 - i] * 10^12).  A NaN has no such count; the
\* deltas that are numbers are the unrounded times, of which equal ones
\* have equal counts
C10_DeltasPalindromic ==
    SolveReturnedTrue =>
        \A i \in DOMAIN deltas :
            /\ ~IsNaN(deltas[i].lin)
            /\ ~IsNaN(deltas[Len(deltas) + 1 - i].lin)
            /\ deltas[i] = deltas[Len(deltas) + 1 - i]

\* the discrete segments the profile moves through between step k - 1 and
\* step k
SegmentsOfStep(k) ==
    { seg \in {discreteSegments[i] : i \in DOMAIN discreteSegments} :
        /\ (IF k = 1 THEN 1 ELSE emitted[k - 1].seg) <= seg.id
        /\ seg.id <= emitted[k].seg }

\* the velocities at the ends of the segments of step k; the velocity of a
\* segment is monotonic, so it stays between its vi and its ve
EndVelocities(k) ==
    {seg.vi : seg \in SegmentsOfStep(k)} \cup {seg.ve : seg \in SegmentsOfStep(k)}

FastestIn(k) == CHOOSE x \in EndVelocities(k) : \A y \in EndVelocities(k) : Le(y, x)

SlowestIn(k) == CHOOSE x \in EndVelocities(k) : \A y \in EndVelocities(k) : Le(x, y)

\* the deltas up to step k add up to the time at which the profile reaches
\* the displacement of step k
Tracked(k) == k = 0 \/ TSum(SubSeq(deltas, 1, k)) = StepInstant(k)

\* deltas[k] is the time the profile takes from the displacement of step
\* k - 1 to the displacement of step k
Spans(k) == Tracked(k - 1) /\ Tracked(k)

\* the displacement between step k - 1 and step k
Advance(k) == Sub(StepPosition(k), StepPosition(k - 1))

\* the time t is a known number
Known(t) == t.atoms = NoAtoms /\ ~IsNaN(t.lin)

\* deltas[k] >= deltas[m] for certain: both are known numbers, or the least
\* deltas[k] can be, its displacement at the highest velocity, is no less
\* than the most deltas[m] can be, its displacement at the lowest velocity
DeltaNotBelow(k, m) ==
    \/ Known(deltas[k]) /\ Known(deltas[m]) /\ Le(deltas[m].lin, deltas[k].lin)
    \/ /\ Spans(k)
       /\ Spans(m)
       /\ Sign(SlowestIn(m)) > 0
       /\ Le(Mul(Advance(m), FastestIn(k)), Mul(Advance(k), SlowestIn(m)))

\* deltas[k], of a step of segment 4, is not beta / vi for certain: it is
\* another known number, or the step covers beta or more and starts before
\* the entry of segment 4, where the profile is slower than vi
NotCruiseDelta(k) ==
    \/ Known(deltas[k]) /\ ~Eq(Mul(deltas[k].lin, OwnerOfStep(k).vi), beta)
    \/ /\ Spans(k)
       /\ Lt(StepPosition(k - 1), OwnerOfStep(k).si)
       /\ Le(FastestIn(k), OwnerOfStep(k).vi)
       /\ Le(beta, Advance(k))

\* C11: in a solved profile no two consecutive deltas of one segment are out
\* of order: inside segments 1..3 the later one is not the larger or equal
\* one, inside segments 5..7 it is not the smaller or equal one, and inside
\* segment 4 neither differs from beta / vi
C11_DeltasMonotonicInsideSegments ==
    SolveReturnedTrue =>
        \A k \in 1..(Len(deltas) - 1) :
            emitted[k].seg = emitted[k + 1].seg =>
                /\ emitted[k].seg < 4 => ~DeltaNotBelow(k + 1, k)
                /\ emitted[k].seg > 4 => ~DeltaNotBelow(k, k + 1)
                /\ emitted[k].seg = 4 => ~NotCruiseDelta(k) /\ ~NotCruiseDelta(k + 1)

\* the constraints c0 respect the ceilings of the request:
\* 0 < a <= A and v0 <= v <= V
WithinRequest(c0) ==
    /\ ~IsNaN(c0.a) /\ Sign(c0.a) > 0 /\ Le(c0.a, request.a)
    /\ ~IsNaN(c0.v) /\ Le(request.v0, c0.v) /\ Le(c0.v, request.v)

\* the constraints a pass of the bisection of __solve_motion_constraints__
\* puts in force: the trial acceleration of c1, then its candidate velocity v
MotionTrialConstraints(c1, v) ==
    {c1} \cup (IF TRUE \in IsCandidate(c1, v) THEN {update_v(c1, v)} ELSE {})

\* the constraints __solve_time_and_motion_constraints_step__ puts in force
\* from c1, v_ being the velocity that meets the time target
TimeStepConstraints(c1, v_) ==
    {c1} \cup (IF TRUE \in IsTimedCandidate(c1, v_) THEN {update_v(c1, v_)} ELSE {})

\* the constraints with the acceleration the next pass of a bisection tries
BisectionTrial == update_a(c, Mul(Rat(1, 2), Add(ms.min_a, ms.max_a)))

\* the constraints the next step of solve() puts in force before it ends
ConstraintsInForce ==
    IF pc = "solve_motion" THEN {Preconditioned(c, beta)}
    ELSE IF pc = "motion_bisect" /\ ms.it < ms.its
    THEN MotionTrialConstraints(BisectionTrial, CandidateVelocity(BisectionTrial))
    ELSE IF pc = "motion_returned" /\ Sign(c.t) > 0 /\ ~TimeTargetUnreachable(c)
    THEN TimeStepConstraints(c, TimedVelocity(c))
    ELSE IF pc = "time_bisect" /\ ms.it < ms.its
    THEN TimeStepConstraints(BisectionTrial, TimedVelocity(BisectionTrial))
    ELSE {}

\* C12: in every state of solve(), for the constraints in force and for
\* those every step puts in force on its way (the preconditioned
\* acceleration, every bisection trial, the committed values),
\* 0 < a <= A and v0 <= v <= V for the A and V of the request
C12_ConstraintsWithinRequest ==
    caller = "SCurveFull" =>
        /\ WithinRequest(c)
        /\ \A c1 \in ConstraintsInForce : WithinRequest(c1)

\* C12: a pass of the motion bisection about to try an acceleration whose
\* candidate velocity is accepted, the acceleration in force being the
\* preconditioned one
C12_Witness ==
    /\ pc = "motion_bisect"
    /\ ms.it < ms.its
    /\ Lt(c.a, request.a)
    /\ TRUE \in IsCandidate(BisectionTrial, CandidateVelocity(BisectionTrial))

\* epsilon
Epsilon == Rat(1, EpsilonDen)

\* k is what the claim says s_to_steps returns for r = s * alpha
StepsFor(r, k) ==
    /\ k = (IF Lt(Sub(Num(Ceil(r)), r), Epsilon) THEN Ceil(r) ELSE Ceil(r) - 1)
    /\ Eq(r, Num(Floor(r))) => Eq(Num(k), r)
    /\ Le(Epsilon, Sub(Num(Floor(r) + 1), r)) => k = Floor(r)
    /\ Lt(Sub(Num(k), r), Epsilon)
    /\ Lt(Sub(r, Num(k)), Num(1))

\* C13: s_to_steps(s, alpha, eps) returns ceil(s * alpha) when that is less
\* than eps above s * alpha and ceil(s * alpha) - 1 otherwise: r itself for
\* an integer r = s * alpha, floor(r) when r is at least eps below the next
\* integer, and always a k with k - eps < r < k + 1
C13_StepsOfDisplacement ==
    (caller = "s_to_steps" /\ pc = "done") =>
        StepsFor(Mul(request.s, alpha), result)

\* C13: s_to_steps has returned the ceiling of an r = s * alpha that is not
\* an integer
C13_Witness ==
    /\ caller = "s_to_steps"
    /\ pc = "done"
    /\ ~Eq(Mul(request.s, alpha), Num(result))
    /\ result = Ceil(Mul(request.s, alpha))

\* the request has a time target that the entry velocity alone overshoots:
\* T > 0 and S <= v0 * T
RequestOvershoots ==
    Sign(request.t) > 0 /\ Le(request.s, Mul(request.v0, request.t))

\* C14: with a time target T > 0 and S <= v0 * T, solve() returns false and
\* nothing else, and at no point holds a segment or a delta
C14_UnreachableTimeTargetFails ==
    (caller = "SCurveFull" /\ RequestOvershoots) =>
        /\ pc = "done" => result = "false"
        /\ segments = <<>>
        /\ discreteSegments = <<>>
        /\ deltas = <<>>

\* C14: solve() has returned on a request with S = v0 * T, T > 0, for which
\* the motion solver had found constraints
C14_Witness ==
    /\ caller = "SCurveFull"
    /\ pc = "done"
    /\ Sign(request.t) > 0
    /\ Eq(request.s, Mul(request.v0, request.t))
    /\ Sign(c.a) > 0

\* TestCurve.t_epsilon
t_epsilon == Rat(1, 10000)

\* the time total is a number within t_epsilon of target
SumsTo(total, target) ==
    /\ total.atoms = NoAtoms
    /\ WithinMagnitude(Sub(total.lin, target), t_epsilon)

\* C15: when T > 0 and solve() returns true, the deltas sum to T within
\* 1e-4
C15_DeltasSumToTimeTarget ==
    (SolveReturnedTrue /\ Sign(request.t) > 0) => SumsTo(TSum(deltas), request.t)

\* C16: a solve() in which a root finder returned NaN for a step reports
\* failure: no profile returned as solved has a NaN among its deltas
C16_NoNaNInSolvedProfile ==
    SolveReturnedTrue => \A i \in DOMAIN deltas : ~IsNaN(deltas[i].lin)

\* the ids of the segments segs are strictly increasing and lie in 1..7
IncreasingIds(segs) ==
    /\ \A k \in DOMAIN segs : segs[k].id \in 1..7
    /\ \A k \in DOMAIN segs : k < Len(segs) => segs[k].id < segs[k + 1].id

\* C17: after any sequence of solve() calls on a curve object the
\* continuous and the discrete segment list each hold at most seven
\* entries, with strictly increasing ids from 1..7
C17_AtMostSevenSegments ==
    /\ Len(segments) <= 7 /\ IncreasingIds(segments)
    /\ Len(discreteSegments) <= 7 /\ IncreasingIds(discreteSegments)

\* the value saved by update_a / update_v, if any, is the original one
SavedIs(prev, original) == prev # Unassigned => Eq(ValueOf(prev), original)

\* C18: no update_a (update_v) is made while an earlier one is outstanding,
\* so that the value saved for the acceleration is always the A of the
\* request and the one saved for the velocity always its V
C18_SavedValuesAreOriginal ==
    caller = "SCurveFull" =>
        /\ SavedIs(c.a_prev, request.a)
        /\ SavedIs(c.v_prev, request.v)

\* the constraint solver solve() is running or has last run
MotionSolverEntered == pc \in {"solve_motion", "motion_bisect", "motion_returned"}
TimeSolverEntered == pc \in {"time_bisect", "time_returned"}

\* C20: solve() enters the motion-only solver only when T = 0 and the
\* time-and-motion solver only when T > 0, and the time-and-motion solver
\* is entered with the a and v of the request
C20_OneSolverPerInvocation ==
    /\ MotionSolverEntered => Sign(request.t) = 0
    /\ TimeSolverEntered =>
           /\ Sign(request.t) > 0
           /\ ms.entry = Assigned([a |-> request.a, v |-> request.v])

\* the candidate velocity of the next pass of the motion bisection
TrialVelocity == CandidateVelocity(BisectionTrial)

\* the next pass of the motion bisection has a candidate velocity at or
\* above the velocity ceiling, as line 534 compares them
TrialSaturates ==
    /\ pc = "motion_bisect"
    /\ ms.it < ms.its
    /\ ~IsNaN(TrialVelocity)
    /\ LeResults(c.v, TrialVelocity, TrialHeld(BisectionTrial, TrialVelocity)) = {TRUE}

\* C21 as stated: a pass of the motion bisection whose candidate velocity is
\* >= V raises min_a to the trial acceleration
C21_SaturatedTrialRaisesLowerBound ==
    [][TrialSaturates => Eq(ms'.min_a, BisectionTrial.a)]_vars

\* C21: a pass of the motion bisection whose candidate velocity is >= V is a
\* rejection: it lowers max_a to the trial acceleration and leaves min_a and
\* the remembered velocity as they were
C21_SaturatedTrialLowersUpperBound ==
    [][TrialSaturates =>
          /\ Eq(ms'.max_a, BisectionTrial.a)
          /\ ms'.min_a = ms.min_a
          /\ ms'.min_v = ms.min_v]_vars

\* C21: the bisection has made a pass whose candidate velocity was at or
\* above the ceiling: max_a is an acceleration below the one on entry
\* whose candidate velocity is above V
C21_Witness ==
    /\ pc = "motion_bisect"
    /\ ms.it > 0
    /\ Lt(ms.max_a, c.a)
    /\ ~IsNaN(CandidateVelocity(update_a(c, ms.max_a)))
    /\ Lt(c.v, CandidateVelocity(update_a(c, ms.max_a)))

\* the motion solver found the displacement check failing on entry and
\* went into its bisection
BisectionRan == Sign(ms.max_a) > 0

\* the constraints the motion solver was entered with
EntryConstraints ==
    [c EXCEPT !.a = ValueOf(ms.entry).a, !.v = ValueOf(ms.entry).v]

\* max_a when the bisection starts: the acceleration after the a_peak
\* preconditioning
EntryMaxA == Preconditioned(EntryConstraints, beta).a

\* the values c0 are what the claim says the bisection commits, the locals
\* of the solver being l
CommittedTrial(c0, l) ==
    /\ Eq(c0.a, l.min_a)
    /\ Eq(c0.v, ValueOf(l.min_v))
    /\ Sign(c0.a) > 0
    /\ Lt(c0.a, EntryMaxA)
    /\ TRUE \in LtResults(c0.v0, c0.v, TrialHeld(c0, c0.v))
    /\ TRUE \in LtResults(c0.v, ValueOf(l.entry).v, TrialHeld(c0, c0.v))
    /\ TRUE \in check_min_displacement(c0, beta)

\* C22: while the motion bisection runs min_a <= max_a; a pass that accepts
\* its trial (it leaves max_a alone) raises min_a strictly; the solver
\* returns true iff min_a was raised by some pass, and then the committed a
\* and v are those of the last accepted trial, with 0 < a < max_a at entry,
\* v0 < v < V and check_min_displacement true under them
C22_BisectionCommitsLastAccepted ==
    [][/\ pc' = "motion_bisect" => Le(ms'.min_a, ms'.max_a)
       /\ (pc = "motion_bisect" /\ ms'.it = ms.it + 1 /\ ms'.max_a = ms.max_a)
              => (Lt(ms.min_a, ms'.min_a) /\ Eq(ms'.min_a, BisectionTrial.a))
       /\ (pc = "motion_bisect" /\ pc' = "motion_returned")
              => /\ solved' <=> Sign(ms.min_a) > 0
                 /\ solved' => CommittedTrial(c', ms)]_vars

\* C22: the motion solver has returned true from a bisection of at least
\* two passes in which one trial was accepted and one rejected
C22_Witness ==
    /\ pc = "motion_returned"
    /\ BisectionRan
    /\ solved
    /\ ms.its >= 2
    /\ Lt(ms.max_a, EntryMaxA)
    /\ Eq(c.a, ms.min_a)

\* the number of deltas held before __discretize__ takes up its next
\* segment: line 121 empties the list before the first one
DeltasBefore == IF dseg = 0 THEN 0 ELSE Len(deltas)

\* C24: for each discrete segment __discretize__ appends exactly
\* stpe - stpi + 1 deltas, the straddle delta included, and has as many
\* deltas as the segment's stpe when it is done with the segment; so the
\* number of deltas of a solved profile is the stpe of the last segment
C24_DeltasPerSegment ==
    [][dseg' = dseg + 1 =>
          /\ Len(deltas') - DeltasBefore =
                 discreteSegments[dseg + 1].stpe - discreteSegments[dseg + 1].stpi + 1
          /\ Len(deltas') = discreteSegments[dseg + 1].stpe]_vars

\* C24: __discretize__ is done with a segment that began with a straddle
\* delta and went through the loop at least twice
C24_Witness ==
    /\ dseg > 0
    /\ Straddles(discreteSegments[dseg])
    /\ discreteSegments[dseg].stpe - discreteSegments[dseg].stpi >= 2
    /\ Len(deltas) = discreteSegments[dseg].stpe

\* __bounds__ is about to characterize segment id, one of 2, 3, 4
Characterizing(id) ==
    /\ pc = (IF id = 2 THEN "bounds2" ELSE IF id = 3 THEN "bounds3" ELSE "bounds4")
    /\ id = 4 => GtEpsilon(Segment4_Displacement(b).s4)

\* the displacement of segment id, from the locals l
DisplacementOf(l, id) ==
    IF id = 2 THEN l.s2 ELSE IF id = 3 THEN l.s3 ELSE Segment4_Displacement(l).s4

\* the displacement segment id needs to make up the steps owed on entry
NeededDisplacement(l) == Sub(Mul(Num(l.stp_err), beta), l.s_err)

\* steps are owed on entry to segment id and the displacement they need
\* fits in the segment, as floats compare the two
Absorbs(l, id) ==
    IF Has(l, "stp_err") /\ l.stp_err > 0
    THEN LeResults(NeededDisplacement(l), DisplacementOf(l, id), BoundsHeld(l))
    ELSE {FALSE}

\* the continuous segment id among the locals l
ContinuousOf(l, id) ==
    IF id = 2 THEN l.segment2 ELSE IF id = 3 THEN l.segment3 ELSE l.segment4

\* the residual of segment id among the locals l
ResidualOf(l, id) ==
    IF id = 2 THEN <<l.s2_err, l.t2_err>>
    ELSE IF id = 3 THEN <<l.s3_err, l.t3_err>>
    ELSE <<l.s4_err, l.t4_err>>

\* the discrete segment seg has absorbed the steps owed by the locals l0,
\* and the locals l1 hold the residual of the segment alone
HasAbsorbed(seg, l0, l1) ==
    /\ Eq(seg.s0, NeededDisplacement(l0))
    /\ seg.t0 = TimeAt(ContinuousOf(l1, seg.id), NeededDisplacement(l0))
    /\ seg.td = TAdd(l0.t_err, seg.t0)
    /\ Eq(l1.s_err, ResidualOf(l1, seg.id)[1])
    /\ l1.t_err = ResidualOf(l1, seg.id)[2]
    /\ l1.stp_err \in CeilResults(Mul(l1.s_err, alpha), BoundsHeld(l1))

\* the discrete segment seg has absorbed nothing
HasAbsorbedNothing(seg) ==
    seg.td = TZero /\ seg.t0 = TZero /\ Sign(seg.s0) = 0

\* the discrete segment that was added last, once the step is taken
AddedLast == discreteSegments'[Len(discreteSegments')]

\* C25: when __bounds__ characterizes segment 2, 3 or 4 it adds the
\* discrete segment; if stp_err > 0 on entry and stp_err * beta - s_err is
\* no more than the segment's displacement, the segment has s0 = that
\* displacement, t0 = the time the segment takes to cover it and
\* td = t_err + t0, and s_err, t_err, stp_err hold what the segment alone
\* leaves; otherwise the segment has td = 0, t0 = 0 and s0 = 0
C25_ResidualAbsorbed ==
    [][\A id \in 2..4 :
          Characterizing(id) =>
              /\ Len(discreteSegments') = Len(discreteSegments) + 1
              /\ AddedLast.id = id
              /\ \E absorbs \in Absorbs(b, id) :
                     IF absorbs
                     THEN HasAbsorbed(AddedLast, b, b')
                     ELSE HasAbsorbedNothing(AddedLast)]_vars

\* the next pass of the time-and-motion bisection is a rejection: it does
\* not raise min_a
TimedTrialRejected == ms'.it = ms.it + 1 /\ ms'.min_a = ms.min_a

\* C27: every pass of the time-and-motion bisection finds in c.v, the
\* ceiling it tests its candidate velocity against, the value c.v had when
\* the solver was entered, and a rejected pass leaves c.a and c.v as they
\* were before it
C27_TimedTrialsShareCeiling ==
    [][(pc = "time_bisect" /\ ms.it < ms.its) =>
          /\ Eq(c.v, ValueOf(ms.entry).v)
          /\ TimedTrialRejected => (Eq(c'.a, c.a) /\ Eq(c'.v, c.v))]_vars

\* C28: the step ranges of the discrete segments are contiguous and
\* non-empty: the first starts at step 1, every later one starts at the step
\* after the end of the one before it, and every one ends at or after the
\* step it starts at
C28_StepRangesContiguous ==
    \A i \in 1..Len(discreteSegments) :
        /\ discreteSegments[i].stpi =
               (IF i = 1 THEN 1 ELSE discreteSegments[i - 1].stpe + 1)
        /\ discreteSegments[i].stpe >= discreteSegments[i].stpi

\* all seven segments characterized, with a cruise segment of two steps or
\* more and a segment of a single step among them
C28_Witness ==
    /\ Len(discreteSegments) = 7
    /\ discreteSegments[4].stpe > discreteSegments[4].stpi
    /\ \E i \in 1..7 : discreteSegments[i].stpe = discreteSegments[i].stpi

\* C29: no step of the constraint solvers, of __bounds__ or of
\* __discretize__ changes v0, j, s or t of the constraints (a, v and their
\* saved copies are the only fields written), and a step of __discretize__
\* changes neither the constraints nor the segments: it writes the deltas
C29_ConstraintFrame ==
    [][/\ c'.v0 = c.v0 /\ c'.j = c.j /\ c'.s = c.s /\ c'.t = c.t
       /\ pc = "discretize" =>
              UNCHANGED <<c, segments, discreteSegments, hasSegment4>>]_vars

\* a timed solve that has rewritten both a and v, characterized the
\* segments and discretized them all
C29_Witness ==
    /\ pc = "done" /\ result = "true"
    /\ Sign(request.t) > 0
    /\ ~Eq(c.a, request.a) /\ ~Eq(c.v, request.v)
    /\ Len(deltas) > 0
    /\ c.v0 = request.v0 /\ c.j = request.j
    /\ c.s = request.s /\ c.t = request.t

\* the displacement the continuous segment seg covers
Covered(seg) == Sub(seg.se, seg.si)

\* C30: after every solve() that returns true every emitted continuous
\* segment has a strictly positive duration and covers a strictly positive
\* displacement: segments 1 and 3 last a / j > 0, segment 2 lasts
\* (v - v0 - a^2 / j) / a > 0, the displacements of segments 1, 2 and 3 are
\* the minimum displacements and at least beta each, twice their sum is at
\* most s, and the cruise segment is there only to cover more than epsilon
C30_SegmentsPositive ==
    SolveReturnedTrue =>
        /\ \A i \in 1..Len(segments) :
               Sign(segments[i].t) > 0 /\ Sign(Covered(segments[i])) > 0
        /\ Sign(Div(c.a, c.j)) > 0
        /\ Eq(segments[1].t, Div(c.a, c.j))
        /\ Eq(segments[3].t, Div(c.a, c.j))
        /\ Eq(segments[2].t,
              Div(Sub(Sub(c.v, c.v0), Div(Sq(c.a), c.j)), c.a))
        /\ \A k \in 1..3 :
               /\ Eq(Covered(segments[k]), get_min_displacement(c)[k])
               /\ Le(beta, Covered(segments[k]))
        /\ Le(Mul(Num(2), Add(Add(Covered(segments[1]), Covered(segments[2])),
                              Covered(segments[3]))),
              c.s)
        /\ Len(segments) \in {6, 7}
        /\ hasSegment4 <=> Len(segments) = 7
        /\ hasSegment4 => /\ segments[4].id = 4
                          /\ GtEpsilon(Covered(segments[4]))

\* a timed solve that returned true with a cruise segment, on constraints
\* the solvers have rewritten
C30_Witness ==
    /\ SolveReturnedTrue
    /\ hasSegment4
    /\ Sign(request.t) > 0
    /\ ~Eq(c.a, request.a) /\ ~Eq(c.v, request.v)
    /\ Lt(beta, Covered(segments[2]))

(***************************************************************************)
(* curve_math.py: solve_third_order_newton called on its own.  The floats  *)
(* of the call are held exactly, as ratios of integers, and NaN as NaN;    *)
(* the polynomial, its derivative and the iterate x0 - f / df are computed *)
(* as lines 20-23 and 31-34 compute them.  The inputs are calls in which   *)
(* every value is a ratio of 32-bit integers; on them the comparisons of   *)
(* lines 27 and 37 come out on the exact values as they do on the rounded  *)
(* ones.  The locals of the call are kept in b.                            *)
(***************************************************************************)
\* sys.float_info.max (line 25), held as the largest integer: it is above
\* every float of a call and is never an operand of the arithmetic
FloatMax == Num(2147483647)

\* x > y on floats; false when either is NaN
FloatGt(x, y) ==
    /\ ~IsNaN(x)
    /\ ~IsNaN(y)
    /\ y # FloatMax
    /\ (x = FloatMax \/ Lt(y, x))

\* x != y on floats; true when either is NaN
FloatNe(x, y) == IsNaN(x) \/ IsNaN(y) \/ x # y

\* abs(x - y)
FloatDistance(x, y) ==
    IF IsNaN(x) \/ IsNaN(y) THEN NaN
    ELSE IF Lt(x, y) THEN Sub(y, x)
    ELSE Sub(x, y)

\* the calls: polynomials of degree at most two with the tolerances 1/2 and
\* 1/4, and cubics with the tolerance 1
NewtonInputs ==
    { q \in [a : {Zero, Num(1)}, b : {Num(-1), Zero, Num(1)},
             c : {Num(-2), Zero, Num(1)}, d : {Num(-2), Zero, Num(1), Num(2)},
             x0 : {Zero, Num(1), Num(2)},
             err : {Num(1), Rat(1, 2), Rat(1, 4)}] :
          IF q.a = Zero THEN q.err # Num(1) ELSE q.err = Num(1) }

\* lines 20 and 31 at a float x that is not NaN
Cubic(q, x) ==
    Add(Add(Add(Mul(q.a, Cube(x)), Mul(q.b, Sq(x))), Mul(q.c, x)), q.d)

\* lines 21 and 32 at a float x that is not NaN
CubicSlope(q, x) ==
    Add(Add(Mul(Mul(Num(3), q.a), Sq(x)), Mul(Mul(Num(2), q.b), x)), q.c)

\* lines 23 and 34: x0 - (f / df), df not being zero; NaN at NaN
NewtonIterate(q, x0) ==
    IF IsNaN(x0) THEN NaN
    ELSE Sub(x0, Div(Cubic(q, x0), CubicSlope(q, x0)))

\* line 27 without its second comparison
NewtonAboveError(l, err) == FloatGt(l.error, err)

\* line 27
NewtonContinues(l, err) ==
    FloatGt(l.error, err) /\ FloatNe(l.error, l.prev_error)

\* lines 37-38
NewtonGrown(l) ==
    IF FloatGt(l.error, l.prev_error) THEN [l EXCEPT !.x1 = NaN] ELSE l

InitNewton ==
    /\ caller = "solve_third_order_newton"
    /\ request \in NewtonInputs
    /\ c = MotionConstraint(Zero, Zero, Zero, Zero, Zero, Zero)
    /\ pc = "start"
    /\ solved = FALSE
    /\ result = "none"
    /\ ms = NoSolverLocals
    /\ b = NoLocals
    /\ segments = <<>>
    /\ discreteSegments = <<>>
    /\ hasSegment4 = FALSE
    /\ deltas = <<>>
    /\ emitted = <<>>
    /\ dseg = 0

\* lines 18-25
Newton_Enter ==
    /\ pc = "start"
    /\ caller = "solve_third_order_newton"
    /\ IF Sign(CubicSlope(request, request.x0)) = 0
       THEN /\ pc' = "done"
            /\ result' = "ZeroDivisionError"
            /\ UNCHANGED b
       ELSE /\ \E x1 \in {NewtonIterate(request, request.x0)} :
                  b' = [it |-> 1, x0 |-> request.x0, x1 |-> x1,
                        error |-> FloatDistance(x1, request.x0),
                        prev_error |-> FloatMax]
            /\ pc' = "newton_loop"
            /\ UNCHANGED result
    /\ UNCHANGED <<caller, request, c, solved, ms, segments,
                   discreteSegments, hasSegment4, deltas, emitted, dseg>>

\* one pass of the loop, lines 27-38
Newton_Pass ==
    /\ pc = "newton_loop"
    /\ NewtonContinues(b, request.err)
    /\ IF ~IsNaN(b.x1) /\ Sign(CubicSlope(request, b.x1)) = 0
       THEN /\ pc' = "done"
            /\ result' = "ZeroDivisionError"
            /\ b' = [b EXCEPT !.it = b.it + 1, !.x0 = b.x1]
       ELSE /\ \E x1 \in {NewtonIterate(request, b.x1)} :
                  \E error \in {FloatDistance(x1, b.x1)} :
                      b' = NewtonGrown([it |-> b.it + 1, x0 |-> b.x1, x1 |-> x1,
                                        error |-> error, prev_error |-> b.error])
            /\ UNCHANGED <<pc, result>>
    /\ UNCHANGED <<caller, request, c, solved, ms, segments,
                   discreteSegments, hasSegment4, deltas, emitted, dseg>>

\* lines 27 and 40-43; the value returned is b.x1
Newton_Return ==
    /\ pc = "newton_loop"
    /\ ~NewtonContinues(b, request.err)
    /\ pc' = "done"
    /\ result' = "returned"
    /\ UNCHANGED <<caller, request, c, solved, ms, b, segments,
                   discreteSegments, hasSegment4, deltas, emitted, dseg>>

NextNewton == Newton_Enter \/ Newton_Pass \/ Newton_Return

\* the call runs on: nothing suspends it
SpecNewton == InitNewton /\ [][NextNewton]_vars /\ WF_vars(NextNewton)

\* the loop of solve_third_order_newton is at its test
NewtonAtTest == caller = "solve_third_order_newton" /\ pc = "newton_loop"

\* the step error is at most err, or equals the step error before it
NewtonSettled ==
    /\ ~IsNaN(b.error)
    /\ (Le(b.error, request.err) \/ b.error = b.prev_error)

\* the most passes a call on NewtonInputs makes
NewtonPassBound == 4

\* C26: every call of solve_third_order_newton comes to an end, after at
\* most NewtonPassBound passes on the inputs of the model; it returns at
\* the first test of the loop at which the step error is at most err or
\* equals the previous step error, and makes another pass only when neither
\* is so; a pass leaves a step error that is not above the one before it, or
\* it leaves NaN in x1; once a pass has found the step error greater than
\* the previous one x1 is NaN and stays NaN, so the call returns NaN
C26_NewtonTerminates ==
    /\ <>(pc = "done")
    /\ [](NewtonAtTest => b.it <= NewtonPassBound)
    /\ [](NewtonAtTest /\ FloatGt(b.error, b.prev_error) => IsNaN(b.x1))
    /\ [][NewtonAtTest =>
             /\ NewtonSettled => (pc' = "done" /\ result' = "returned" /\ b' = b)
             /\ pc' = "newton_loop" =>
                    /\ FloatGt(b.error, request.err)
                    /\ b.error # b.prev_error
                    /\ b'.prev_error = b.error
                    /\ IsNaN(b'.x1) \/ Le(b'.error, b.error)
             /\ IsNaN(b.x1) =>
                    (IsNaN(b'.x1) /\ result' # "ZeroDivisionError")]_vars

\* the call has found its step error grown on its third pass or later and
\* has returned NaN
C26_Witness ==
    /\ caller = "solve_third_order_newton"
    /\ pc = "done"
    /\ result = "returned"
    /\ IsNaN(b.x1)
    /\ b.it >= 4
    /\ IsNaN(b.error)
    /\ FloatGt(b.prev_error, request.err)

\* the locals SCurveFull.__bounds__ can have once lines 190-234 have run
Segment3_Locals == Segment3_Absorbed(Segment3_Continuous(b))

(***************************************************************************)
(* The guard of s_curve_partial.py tests aed = aid + j * td (line 147), td *)
(* being what solve_third_order_newton, started at t, returns for the law  *)
(* with jerk j < 0, entry acceleration aid and entry velocity vid and the  *)
(* displacement s3_d (line 144).  The law's velocity grows until           *)
(* tz = aid / -j, where its acceleration is zero, and falls from there on. *)
(* The finder's steps are not computed here.  Where its iterates are known *)
(* to close in on a root from one side, each step being at least half of   *)
(* what is left (the velocity is a concave function of time) and so no     *)
(* longer than the one before, the sign of aed is that of the acceleration *)
(* on that side; elsewhere the finder can leave the root it was started    *)
(* for, return NaN or divide by zero, and every outcome is kept.           *)
(***************************************************************************)
\* the outcomes of lines 144-153 up to the first test aed < 0: its value,
\* or the ZeroDivisionError of the finder
GuardOutcomes == {"true", "false", "ZeroDivisionError"}

\* the displacement the law has covered at the time tz
DisplacementAt(j, aid, vid, tz) ==
    Add(Add(Mul(vid, tz), Div(Mul(aid, Sq(tz)), Num(2))),
        Div(Mul(j, Cube(tz)), Num(6)))

\* the velocity the law has at the time tz
VelocityAt(j, aid, vid, tz) ==
    Add(Add(vid, Mul(aid, tz)), Div(Mul(j, Sq(tz)), Num(2)))

\* The law reaches s3_d before its velocity turns negative.  From the
\* velocity vz it has at tz, where it has covered sz, the law covers
\* another (2 / 3) * vz * sqrt(2 * vz / -j) until its velocity is zero.
Reaches(j, s3_d, tz, sz, vz) ==
    \/ Le(s3_d, sz)
    \/ Le(Mul(Sub(s3_d, sz), Neg(j)),
          Div(Mul(Rat(8, 9), Cube(vz)), Sub(s3_d, sz)))

\* The finder, started at t with 0 < t <= tz, where the law has covered st
\* at the velocity vt > 0, closes in from above on the root in [0, tz): its
\* first iterate t - (st - s3_d) / vt is short of tz, and from there on the
\* iterates fall towards the root.  aed is then positive.
SettlesShort(aid, vid, s3_d, t, tz, st, vt) ==
    /\ Sign(aid) > 0
    /\ Sign(vid) >= 0
    /\ Sign(s3_d) >= 0
    /\ Sign(t) > 0
    /\ Le(t, tz)
    /\ Lt(Mul(Sub(t, tz), vt), Sub(st, s3_d))

\* The finder, started at t >= tz, where the law has covered st at the
\* velocity vt > 0, closes in from below on the root past tz: the law
\* reaches s3_d, the first iterate is past tz, and from there on the
\* iterates rise towards the root.  aed is then negative.
SettlesPast(j, aid, vid, s3_d, t, tz, st, vt) ==
    /\ Le(tz, t)
    /\ Sign(vt) > 0
    /\ Lt(Sub(st, s3_d), Mul(Sub(t, tz), vt))
    /\ Reaches(j, s3_d, tz, DisplacementAt(j, aid, vid, tz),
               VelocityAt(j, aid, vid, tz))

\* The outcomes for a law with j < 0, st and vt being its displacement and
\* its velocity at t.  The finder's first division is by vt (curve_math.py
\* lines 20-23).  Where st is s3_d the finder returns t, or the float
\* beside it, after its first step, and aed is zero at t = tz, where it has
\* the sign rounding gives.  held: floats hold the operands of the finder's
\* first step, which is then computed without rounding.
ExitAccelerationTestsAt(j, aid, vid, s3_d, t, tz, st, vt, held) ==
    IF Sign(vt) = 0
    THEN (IF held THEN {"ZeroDivisionError"} ELSE GuardOutcomes)
    ELSE IF Eq(st, s3_d)
    THEN (IF Lt(tz, t) THEN {"true"}
          ELSE IF Lt(t, tz) \/ held THEN {"false"}
          ELSE {"true", "false"})
    ELSE IF SettlesShort(aid, vid, s3_d, t, tz, st, vt) THEN {"false"}
    ELSE IF SettlesPast(j, aid, vid, s3_d, t, tz, st, vt) THEN {"true"}
    ELSE GuardOutcomes

\* lines 144-147 and 153
ExitAccelerationTests(j, aid, vid, s3_d, t) ==
    IF Sign(j) < 0
    THEN ExitAccelerationTestsAt(
             j, aid, vid, s3_d, t, Div(aid, Neg(j)),
             DisplacementAt(j, aid, vid, t), VelocityAt(j, aid, vid, t),
             AllHeld({Div(j, Num(6)), Div(aid, Num(2)), vid, s3_d, t}))
    ELSE GuardOutcomes

\* the step __bounds__ takes builds the discrete segment 3 from the locals l
Segment3_Built(l) ==
    /\ pc = "bounds3"
    /\ pc' = "bounds4"
    /\ Eq(AddedLast.s0, l.s3_0)
    /\ AddedLast.td = l.t3_d

\* SCurveFull.__bounds__ computes no discrete exit acceleration: it builds
\* the discrete segment 3 on the entry acceleration ai and the entry
\* velocity vi of the continuous one and gives it ae = 0 (line 247).
\* Segment 3 is about to get its discrete form from the locals l, and the
\* exit acceleration of that form, covering s3_d from ai and vi, can be
\* negative
Segment3_RoundsNegative(l) ==
    /\ pc = "bounds3"
    /\ Has(l, "s3_d")
    /\ "true" \in ExitAccelerationTests(l.j, l.ai, l.vi, l.s3_d, l.t)

\* C23: in SCurveFull.__bounds__, when rounding makes the discrete exit
\* acceleration of segment 3 negative, segment 3 gives up steps while it has
\* more than one: its discrete form gets fewer steps than were counted for
\* it, or __bounds__ returns false, which it does when a single step is left
C23_Segment3GuardShrinks ==
    [][pc = "bounds3" =>
          \A l \in Segment3_Locals :
              (Segment3_RoundsNegative(l) /\ Segment3_Built(l)) =>
                  \/ /\ l.s3_stp > 1
                     /\ AddedLast.stpe - AddedLast.stpi + 1 < l.s3_stp
                  \/ result' = "false"]_vars

====
